---------------------------- MODULE Spec2Model ----------------------------
(***************************************************************************)
(* A model of the document-structure extraction engine of                  *)
(* backend/converter/utils/extractor.py.                                   *)
(*                                                                         *)
(* Every extractor is a forward pass over the blocks of one document.  A   *)
(* paragraph is modelled by the features the code reads from it (is any    *)
(* run bold, does it carry Word numbering, which bullet character does its *)
(* text hold, does it end with a colon, which of the literal phrases the   *)
(* code looks for does it contain).  The output list html_output is a      *)
(* sequence of tokens; a token remembers the paragraph whose content it    *)
(* renders.                                                                *)
(*                                                                         *)
(* Each extractor has its own specification (SpecToc, ...): the variables  *)
(* of the other extractors stay at their idle value.                       *)
(***************************************************************************)
EXTENDS Integers, Sequences, FiniteSets, TLC

VARIABLES
    toc_doc,       \* extract_toc: doc.paragraphs with non-empty text
    toc_pc,        \* "idle" | "loop" | "done" | "raised"
    toc_i,         \* index of the next paragraph of the for loop
    toc_st,        \* the locals of extract_toc (see TocLocals)
    split_text,    \* split_into_excel_cells: the argument text
    split_limit,   \* split_into_excel_cells: the argument limit
    split_pc,      \* "idle" | "called" | "done"
    split_chunks,  \* split_into_excel_cells: the returned list
    fast_doc,      \* extract_all_data_fast: the document behind file_path
    fast_pc,       \* "idle" | "try" | "fields" | "except" | "returned" | "raised"
    fast_result,   \* extract_all_data_fast: the dictionary built so far / returned
    fast_failed,   \* the except clause has been entered: the single pass has failed
    desc_doc,      \* extract_description: doc.element.body, paragraphs with text and tables
    desc_pc,       \* "idle" | "loop" | "done"
    desc_i,        \* index of the next block of the for loop
    desc_st,       \* the locals of extract_description (see DescLocals)
    title_doc,     \* extract_title: doc.paragraphs with non-empty text
    title_tbl,     \* extract_title: the cells of the one row of doc.tables
    title_filename,\* extract_title: the words of the file name without extension
    title_pc,      \* "idle" | the strategy of the chain that runs next | "done"
    title_result,  \* extract_title: the returned title, a sequence of pieces
    meth_doc,      \* extract_methodology_from_faqschema: the FAQPage block of the document
    meth_pc,       \* "idle" | "called" | "parse" | "loop" | "done" | "raised"
    meth_items,    \* the items the for loop has still to visit
    meth_q_count,  \* q_count
    meth_faqs,     \* faqs
    meth_result,   \* the returned string, a sequence of lines
    seo_tables,    \* extract_seo_title: doc.tables, the cell texts row by row
    seo_path,      \* extract_seo_title: docx_path
    seo_pc,        \* "idle" | "loop" | "format" | "done"
    seo_i,         \* index of the next table of the for loop
    seo_revenue_forecast, \* revenue_forecast
    seo_result,    \* the returned SEO title
    bc_urls,       \* extract_breadcrumb_schema: the item URLs of the document's breadcrumb list
    bc_spaced,     \* whether the block is written with a space after its colons
    bc_text,       \* _get_text(docx_path)
    bc_path,       \* docx_path
    bc_pc,         \* "idle" | "called" | "sku" | "sub" | "done"
    bc_json,       \* breadcrumb_json
    bc_sku,        \* sku_code
    bc_result,     \* the returned string
    runs_in,       \* runs_to_html: the runs of the paragraph
    runs_with_links, \* the formatter is runs_to_html_with_links, not runs_to_html
    runs_pc,       \* "idle" | "called" | "formatted" | "reformatted"
    runs_out,      \* the markup returned for runs_in
    runs_again,    \* the markup returned for the markup, read as one plain run
    JOBS,          \* views.JOBS: the in-memory tracker, per job id
    job_records,   \* the JobRecord rows, per job id
    jobs_session,  \* request.session["converter_jobs"], per user
    jobs_issued,   \* the job ids uuid4 has produced
    jobs_dir,      \* the job folders under MEDIA_ROOT, per job id
    jobs_worker,   \* the _convert_worker threads: job, stage, file index, file count
    jobs_reset,    \* the reset_job request between its cancel mark and its delete
    jobs_response, \* the answer of the progress request that is being served
    jobs_pc,       \* "idle" | "serving"
    up_files,      \* upload_files: the names of request.FILES.getlist('files')
    up_dir,        \* the names in the folder of the job
    up_pc,         \* "idle" | "called" | "file" | "loop" | "done" | "rejected" | "raised"
    up_i,          \* index of the next file of the for loop
    up_st,         \* existing_names and the locals of _sanitize_filename (see UploadLocals)
    up_stored,     \* the files written and their UploadedFile rows
    par_files,     \* process_files_parallel: file_paths
    par_queue,     \* the submitted calls no thread has taken yet, by input position
    par_workers,   \* the threads of the executor: position, call, patterns obtained
    _pattern_cache, \* extractor._pattern_cache, per pattern key
    _cache_lock,   \* the thread that holds extractor._cache_lock, 0 when free
    par_futures,   \* the futures, by input position
    par_collected, \* the futures as_completed has yielded
    par_results,   \* results
    par_pc,        \* "idle" | "collecting" | "done"
    json_text,     \* _extract_json_block: text
    json_type,     \* _extract_json_block: type_name
    json_pc,       \* "idle" | "search" | "scan" | "done"
    json_m,        \* m.start() as a position of the text, 0 before the search
    json_result    \* the string _extract_json_block returns

tocVars == <<toc_doc, toc_pc, toc_i, toc_st>>

splitVars == <<split_text, split_limit, split_pc, split_chunks>>

fastVars == <<fast_doc, fast_pc, fast_result, fast_failed>>

descVars == <<desc_doc, desc_pc, desc_i, desc_st>>

titleVars == <<title_doc, title_tbl, title_filename, title_pc, title_result>>

methVars == <<meth_doc, meth_pc, meth_items, meth_q_count, meth_faqs, meth_result>>

seoVars == <<seo_tables, seo_path, seo_pc, seo_i, seo_revenue_forecast, seo_result>>

bcVars == <<bc_urls, bc_spaced, bc_text, bc_path, bc_pc, bc_json, bc_sku, bc_result>>

runsVars == <<runs_in, runs_with_links, runs_pc, runs_out, runs_again>>

jobsVars == <<JOBS, job_records, jobs_session, jobs_issued, jobs_dir, jobs_worker, jobs_reset, jobs_response, jobs_pc>>

upVars == <<up_files, up_dir, up_pc, up_i, up_st, up_stored>>

parVars == <<par_files, par_queue, par_workers, _pattern_cache, _cache_lock, par_futures, par_collected, par_results, par_pc>>

jsonVars == <<json_text, json_type, json_pc, json_m, json_result>>

vars == <<tocVars, splitVars, fastVars, descVars, titleVars, methVars, seoVars, bcVars, runsVars, jobsVars, upVars, parVars, jsonVars>>

(***************************************************************************)
(* Bounds.                                                                 *)
(***************************************************************************)
MaxTocParas == 3      \* paragraphs that follow the first "Executive Summary" paragraph

MaxTextLen == 5       \* characters of a text given to split_into_excel_cells

MaxLimit == 3         \* the cell limit given to split_into_excel_cells

MaxDescBlocks == 3    \* blocks of a document given to extract_description

Last10 == 10          \* html_output[-10:]

(***************************************************************************)
(* Paragraphs as extract_toc and determine_toc_logic see them.             *)
(*   es      : "Executive Summary" in text                                 *)
(*   bold    : is_bold_text(para): some run with text is bold              *)
(*   boldTail: the last run is bold, so that runs_to_html_with_links ends  *)
(*             with "</b>"                                                 *)
(*   wlist   : is_list_item(para): the paragraph has numbering properties  *)
(*   mark    : the list character of the text: "dot" (a bullet U+2022),    *)
(*             "dash" (en dash), "circle", "hyphen" ('-', seen by          *)
(*             determine_toc_logic only), "num" (leading "1." / "1)")      *)
(*   colon   : the text ends with ':'                                      *)
(*   phrase  : the literal phrase of the text the code tests for           *)
(***************************************************************************)
Para(es, bold, boldTail, wlist, mark, colon, phrase) ==
    [es |-> es, bold |-> bold, boldTail |-> boldTail, wlist |-> wlist,
     mark |-> mark, colon |-> colon, phrase |-> phrase]

TocParaKinds ==
    { Para(TRUE,  TRUE,  TRUE,  FALSE, "none",   FALSE, "none"),     \* bold "Executive Summary"
      Para(TRUE,  FALSE, FALSE, FALSE, "none",   FALSE, "none"),     \* plain "Executive Summary"
      Para(TRUE,  TRUE,  TRUE,  FALSE, "dot",    FALSE, "none"),     \* bold "Executive Summary * a * b"
      Para(FALSE, TRUE,  TRUE,  FALSE, "none",   FALSE, "none"),     \* bold heading
      Para(FALSE, TRUE,  TRUE,  FALSE, "none",   FALSE, "lof"),      \* bold "List of Figures"
      Para(FALSE, TRUE,  TRUE,  TRUE,  "none",   TRUE,  "none"),     \* bold list item "X:"
      Para(FALSE, TRUE,  FALSE, TRUE,  "none",   TRUE,  "none"),     \* list item, bold label, plain ":"
      Para(FALSE, TRUE,  TRUE,  FALSE, "dot",    FALSE, "none"),     \* bold "Heading * a * b"
      Para(FALSE, FALSE, FALSE, TRUE,  "none",   FALSE, "none"),     \* list item
      Para(FALSE, FALSE, FALSE, TRUE,  "none",   TRUE,  "none"),     \* list item "X:"
      Para(FALSE, FALSE, FALSE, TRUE,  "circle", FALSE, "none"),     \* list item with a circle bullet
      Para(FALSE, FALSE, FALSE, TRUE,  "none",   FALSE, "country"),  \* "Country-Level Breakdown: US"
      Para(FALSE, FALSE, FALSE, TRUE,  "none",   TRUE,  "country"),  \* "Country-Level Breakdown:"
      Para(FALSE, FALSE, FALSE, TRUE,  "none",   FALSE, "strategy"), \* "Strategy Analysis: ..."
      Para(FALSE, FALSE, FALSE, TRUE,  "none",   FALSE, "mainpat"),  \* "Market Share Analysis"
      Para(FALSE, FALSE, FALSE, TRUE,  "none",   FALSE, "leading"),  \* "Leading Companies"
      Para(FALSE, FALSE, FALSE, TRUE,  "none",   FALSE, "keyplayers"), \* "Market Share by Key Players"
      Para(FALSE, FALSE, FALSE, TRUE,  "none",   FALSE, "regional"), \* "Psychiatric ... Market Analysis Europe"
      Para(FALSE, FALSE, FALSE, FALSE, "num",    FALSE, "none"),     \* "1. item" typed by hand
      Para(FALSE, FALSE, FALSE, FALSE, "hyphen", FALSE, "none"),     \* "- item" typed by hand
      Para(FALSE, FALSE, FALSE, FALSE, "none",   FALSE, "none"),     \* body text
      Para(FALSE, FALSE, FALSE, FALSE, "none",   TRUE,  "none") }    \* body text "X:"

RECURSIVE SeqsUpTo(_, _)
SeqsUpTo(S, n) ==
    IF n = 0 THEN { <<>> }
    ELSE LET shorter == SeqsUpTo(S, n - 1)
         IN shorter \cup { Append(s, x) : s \in { t \in shorter : Len(t) = n - 1 }, x \in S }

(***************************************************************************)
(* Tokens of html_output.  src is the paragraph whose content the token    *)
(* renders, 0 for the list tags.                                           *)
(***************************************************************************)
Tok(tag, src) == [tag |-> tag, src |-> src]
UL == Tok("<ul>", 0)
ULc == Tok("</ul>", 0)
LIc == Tok("</li>", 0)

RECURSIVE Repeat(_, _)
Repeat(x, n) == IF n <= 0 THEN <<>> ELSE <<x>> \o Repeat(x, n - 1)

CountTag(out, tag) == Cardinality({ k \in 1..Len(out) : out[k].tag = tag })

\* has_bullet_chars of extract_toc: '-' is not in its list
has_bullet_chars(p) == p.mark \in {"dot", "dash", "circle"}
\* has_numbering: re.match(r'^\d+[\.\)]', text)
has_numbering(p) == p.mark = "num"
\* is_in_list of determine_toc_logic: its list of characters holds '-' as well
toc_logic_in_list(p) == p.wlist \/ p.mark # "none"

\* formatted_content ends with ":" : the last run is plain and ends the text with ':'
fc_ends_colon(p) == p.colon /\ ~p.boldTail

\* get_list_style_type(para, text), and the same choice written inline in the loop
get_list_style_type(p) ==
    CASE p.mark = "dot" -> "bullet"
      [] p.mark = "circle" -> "circle"
      [] p.mark = "dash" -> "dash"
      [] p.mark = "num" -> "number"
      [] OTHER -> "bullet"

\* is_main_level_item(para, text, parent_list_style); boldTag is '<b>' in text
is_main_level_item(p, boldTag, endsColon, parent_list_style) ==
    \/ parent_list_style = "None"
    \/ get_list_style_type(p) # parent_list_style
    \/ boldTag /\ ~endsColon
    \/ p.phrase = "mainpat"

Min(S) == CHOOSE x \in S : \A y \in S : x <= y
Max(S) == CHOOSE x \in S : \A y \in S : y <= x

\* the if-chain at the end of determine_toc_logic, for para_count >= 1
toc_variant(executive_summary_bold, executive_summary_in_list, first_line_after_bold, first_line_after_in_list) ==
    CASE executive_summary_bold /\ executive_summary_in_list
             /\ first_line_after_in_list /\ ~first_line_after_bold -> 2
      [] executive_summary_bold /\ first_line_after_in_list
             /\ ~first_line_after_bold -> 1
      [] executive_summary_bold /\ first_line_after_in_list
             /\ first_line_after_bold -> 3
      [] executive_summary_bold /\ first_line_after_bold
             /\ ~first_line_after_in_list -> 3
      [] OTHER -> 1

\* determine_toc_logic(doc)
determine_toc_logic(doc) ==
    LET es == { k \in 1..Len(doc) : doc[k].es }
        after == IF es = {} THEN {} ELSE { k \in (Min(es) + 1)..Len(doc) : ~doc[k].es }
    IN IF after = {} THEN 1
       ELSE LET e == doc[Max(es)]
                f == doc[Min(after)]
            IN toc_variant(e.bold, toc_logic_in_list(e), f.bold, toc_logic_in_list(f))

(***************************************************************************)
(* The locals of extract_toc.  formatted_content is the index of the       *)
(* paragraph whose runs it holds, 0 while the name is unbound.             *)
(***************************************************************************)
TocLocals ==
    [html_output |-> <<>>, capture |-> FALSE, inside_list |-> FALSE, list_depth |-> 0,
     parent_list_style |-> "None", current_list_style |-> "None",
     formatted_content |-> 0, raised |-> FALSE]

\* "List of Figures" in "\n".join(html_output[-10:])
lof_recent(out) ==
    \E k \in 1..Len(out) :
        /\ k > Len(out) - Last10
        /\ out[k].src > 0
        /\ toc_doc[out[k].src].phrase = "lof"

\* if inside_list: for _ in range(list_depth): append("</ul>"); inside_list = False; list_depth = 0
close_open_lists(s) ==
    IF s.inside_list
    THEN [s EXCEPT !.html_output = @ \o Repeat(ULc, s.list_depth),
                   !.inside_list = FALSE, !.list_depth = 0]
    ELSE s

\* <ul>, <li><p><strong>content</strong></p>, <ul>: a parent item and the list of its children
parent_item(s, src) ==
    LET c == close_open_lists(s)
    IN [c EXCEPT !.html_output = @ \o <<UL, Tok("<li><p><strong>", src), UL>>,
                 !.inside_list = TRUE, !.list_depth = 2]

\* \n<strong>heading_text</strong> after closing the open lists
bold_heading(s, i) ==
    LET c == close_open_lists(s)
    IN [c EXCEPT !.html_output = @ \o <<Tok("<strong>", i)>>]

\* heading + inline bullets: <strong>, <ul>, <li><p>item</p></li>, </ul>
heading_with_bullets(s, i) ==
    [s EXCEPT !.html_output = @ \o <<Tok("<strong>", i), UL, Tok("<li><p>", i), ULc>>]

\* a plain list item: open the main list when none is open, then <li><p>content</p></li>
list_item(s, src, style) ==
    LET o == IF s.inside_list THEN s
             ELSE [s EXCEPT !.html_output = @ \o <<UL>>, !.inside_list = TRUE,
                            !.list_depth = 1, !.parent_list_style = style]
    IN [o EXCEPT !.html_output = @ \o <<Tok("<li><p>", src)>>]

\* "Strategy Analysis:" and its like: leave the nested structure, then a main list item
new_main_section(s, src) ==
    LET c == IF s.inside_list /\ s.list_depth > 1
             THEN [s EXCEPT !.html_output = @ \o <<ULc, LIc, ULc>>,
                            !.inside_list = FALSE, !.list_depth = 0]
             ELSE s
        o == IF c.inside_list THEN c
             ELSE [c EXCEPT !.html_output = @ \o <<UL>>, !.inside_list = TRUE, !.list_depth = 1]
    IN [o EXCEPT !.html_output = @ \o <<Tok("<li><p>", src)>>]

\* should_be_main_level: close the child list, back to depth 1, then the list item
main_or_child_item(s, i, endsColon) ==
    LET p == toc_doc[i]
        should_be_main_level == is_main_level_item(p, FALSE, endsColon, s.parent_list_style)
        c == IF should_be_main_level /\ s.inside_list /\ s.list_depth > 1
             THEN [s EXCEPT !.html_output = @ \o <<ULc, LIc>>, !.list_depth = 1,
                            !.parent_list_style = s.current_list_style]
             ELSE s
    IN list_item(c, i, c.current_list_style)

\* Logic 1 and 2, non-bold paragraph that is a list item (is_nested_list)
nested_list_item(s, i, logic) ==
    LET p == toc_doc[i]
        s1 == [s EXCEPT !.formatted_content = i, !.current_list_style = get_list_style_type(p)]
        is_parent_item ==
            /\ fc_ends_colon(p) \/ (logic = 2 /\ p.phrase = "leading")
            /\ ~lof_recent(s.html_output)
        is_new_main_section ==
            \/ p.phrase = "strategy"
            \/ logic = 2 /\ p.phrase = "keyplayers"
    IN IF is_parent_item
       THEN [parent_item(s1, i) EXCEPT !.parent_list_style = s1.current_list_style]
       ELSE IF is_new_main_section THEN new_main_section(s1, i)
       ELSE main_or_child_item(s1, i, fc_ends_colon(p))

\* Logic 1 and 2, non-bold paragraph that is no list item: the elif reads
\* formatted_content before this iteration has assigned it
not_list_paragraph(s, i) ==
    IF s.formatted_content = 0 THEN [s EXCEPT !.raised = TRUE]
    ELSE IF fc_ends_colon(toc_doc[s.formatted_content])
         THEN parent_item(s, s.formatted_content)
         ELSE LET c == close_open_lists(s)
              IN [c EXCEPT !.formatted_content = i,
                           !.html_output = @ \o <<Tok("<p>", i)>>]

\* LOGIC 1
toc_logic_1(s, i) ==
    LET p == toc_doc[i]
        is_nested_list == p.wlist \/ has_bullet_chars(p) \/ has_numbering(p)
    IN IF p.bold
       THEN IF is_nested_list
            THEN LET s1 == [s EXCEPT !.formatted_content = i]
                     is_parent_item == fc_ends_colon(p) /\ ~lof_recent(s.html_output)
                 IN IF is_parent_item THEN parent_item(s1, i)
                    ELSE LET o == IF s1.inside_list THEN s1
                                  ELSE [s1 EXCEPT !.html_output = @ \o <<UL>>,
                                                  !.inside_list = TRUE, !.list_depth = 1]
                         IN [o EXCEPT !.html_output = @ \o <<Tok("<li><p>", i)>>]
            ELSE bold_heading(s, i)
       ELSE IF is_nested_list THEN nested_list_item(s, i, 1)
       ELSE not_list_paragraph(s, i)

\* LOGIC 2
toc_logic_2(s, i) ==
    LET p == toc_doc[i]
        is_nested_list == p.wlist \/ has_bullet_chars(p) \/ has_numbering(p)
    IN IF p.bold THEN bold_heading(s, i)
       ELSE IF is_nested_list THEN nested_list_item(s, i, 2)
       ELSE not_list_paragraph(s, i)

\* LOGIC 3
toc_logic_3(s, i) ==
    LET p == toc_doc[i]
        s1 == [s EXCEPT !.formatted_content = i]
        is_list_item_detected == p.wlist \/ has_bullet_chars(p) \/ has_numbering(p)
        \* the list branch tests formatted_content with its <b> tags removed
        stripped_colon == p.colon
        is_parent_item ==
            /\ stripped_colon \/ p.phrase = "regional"
            /\ ~lof_recent(s.html_output)
        is_grand_child == stripped_colon /\ ~lof_recent(s.html_output)
    IN IF p.bold /\ p.mark = "dot"
       THEN heading_with_bullets(close_open_lists(s1), i)
       ELSE IF is_list_item_detected
       THEN IF is_parent_item
            THEN [parent_item(s1, i) EXCEPT !.parent_list_style = s1.current_list_style]
            ELSE IF is_grand_child
            THEN IF s1.inside_list /\ s1.list_depth > 1
                 THEN [s1 EXCEPT !.html_output = @ \o <<Tok("<li><p><strong>", i), UL>>,
                                 !.list_depth = 3]
                 ELSE LET o == IF s1.inside_list THEN s1
                               ELSE [s1 EXCEPT !.html_output = @ \o <<UL>>,
                                               !.inside_list = TRUE, !.list_depth = 1]
                      IN [o EXCEPT !.html_output = @ \o <<Tok("<li><p>", i)>>]
            ELSE IF p.phrase = "country"
            THEN LET o == IF s1.inside_list THEN s1
                          ELSE [s1 EXCEPT !.html_output = @ \o <<UL>>,
                                          !.inside_list = TRUE, !.list_depth = 1]
                 IN [o EXCEPT !.html_output = @ \o <<Tok("<li><p><strong>", i), UL>>,
                              !.list_depth = 2]
            ELSE main_or_child_item(s1, i, stripped_colon)
       ELSE IF p.bold THEN bold_heading(s1, i)
       ELSE IF fc_ends_colon(p) /\ p.phrase # "country" THEN parent_item(s1, i)
       ELSE LET c == close_open_lists(s1)
            IN [c EXCEPT !.html_output = @ \o <<Tok("<p>", i)>>]

\* the start condition: the first paragraph with "Executive Summary"
toc_executive_summary(s, i) ==
    LET p == toc_doc[i]
        c == [s EXCEPT !.capture = TRUE]
    IN IF p.bold
       THEN IF p.mark = "dot" THEN heading_with_bullets(c, i)
            ELSE [c EXCEPT !.html_output = @ \o <<Tok("<strong>", i)>>]
       ELSE c

logic_type == determine_toc_logic(toc_doc)

(***************************************************************************)
(* extract_toc as a state machine: one step per paragraph of the loop.     *)
(* toc_doc holds the paragraphs from the first "Executive Summary" on (the *)
(* loop skips what precedes it); it is empty when no paragraph has it.     *)
(***************************************************************************)
TocExecSummaryKinds == { p \in TocParaKinds : p.es }

TocDocs ==
    { <<>> } \cup
    { <<e>> \o r : e \in TocExecSummaryKinds, r \in SeqsUpTo(TocParaKinds, MaxTocParas) }

IdleToc ==
    /\ toc_doc = <<>>
    /\ toc_pc = "idle"
    /\ toc_i = 1
    /\ toc_st = TocLocals

IdleSplit ==
    /\ split_text = <<>>
    /\ split_limit = 1
    /\ split_pc = "idle"
    /\ split_chunks = <<>>

IdleFast ==
    /\ fast_doc = <<>>
    /\ fast_pc = "idle"
    /\ fast_result = <<>>
    /\ fast_failed = FALSE

\* the locals of extract_description at its entry
DescLocals ==
    [html_output |-> <<>>, capture |-> FALSE, inside_list |-> "None",
     used_headings |-> {}, previous_bold_word |-> "None",
     inside_regional_section |-> FALSE,
     inside_recent_developments_section |-> FALSE,
     inside_introduction_section |-> FALSE,
     inside_segmentation_section |-> FALSE,
     inside_segmentation_subheading |-> FALSE,
     inside_market_trends_section |-> FALSE,
     inside_competitive_intelligence_section |-> FALSE,
     inside_end_user_dynamics_section |-> FALSE,
     inside_regional_landscape_section |-> FALSE,
     inside_market_segmentation_section |-> FALSE]

IdleDesc ==
    /\ desc_doc = <<>>
    /\ desc_pc = "idle"
    /\ desc_i = 1
    /\ desc_st = DescLocals

IdleTitle ==
    /\ title_doc = <<>>
    /\ title_tbl = <<>>
    /\ title_filename = <<>>
    /\ title_pc = "idle"
    /\ title_result = <<>>

IdleMeth ==
    /\ meth_doc = <<>>
    /\ meth_pc = "idle"
    /\ meth_items = <<>>
    /\ meth_q_count = 0
    /\ meth_faqs = <<>>
    /\ meth_result = <<>>

IdleSeo ==
    /\ seo_tables = <<>>
    /\ seo_path = ""
    /\ seo_pc = "idle"
    /\ seo_i = 1
    /\ seo_revenue_forecast = ""
    /\ seo_result = ""

IdleBc ==
    /\ bc_urls = <<>>
    /\ bc_spaced = FALSE
    /\ bc_text = ""
    /\ bc_path = ""
    /\ bc_pc = "idle"
    /\ bc_json = ""
    /\ bc_sku = ""
    /\ bc_result = ""

IdleRuns ==
    /\ runs_in = <<>>
    /\ runs_with_links = FALSE
    /\ runs_pc = "idle"
    /\ runs_out = <<>>
    /\ runs_again = <<>>

IdleJobs ==
    /\ JOBS = <<>>
    /\ job_records = <<>>
    /\ jobs_session = <<>>
    /\ jobs_issued = {}
    /\ jobs_dir = <<>>
    /\ jobs_worker = <<>>
    /\ jobs_reset = <<>>
    /\ jobs_response = <<>>
    /\ jobs_pc = "idle"

IdleUp ==
    /\ up_files = <<>>
    /\ up_dir = {}
    /\ up_pc = "idle"
    /\ up_i = 1
    /\ up_st = <<>>
    /\ up_stored = <<>>

IdlePar ==
    /\ par_files = <<>>
    /\ par_queue = <<>>
    /\ par_workers = <<>>
    /\ _pattern_cache = <<>>
    /\ _cache_lock = 0
    /\ par_futures = <<>>
    /\ par_collected = {}
    /\ par_results = <<>>
    /\ par_pc = "idle"

IdleJson ==
    /\ json_text = ""
    /\ json_type = ""
    /\ json_pc = "idle"
    /\ json_m = 0
    /\ json_result = ""

InitToc ==
    /\ toc_doc \in TocDocs
    /\ toc_pc = "loop"
    /\ toc_i = 1
    /\ toc_st = TocLocals
    /\ IdleSplit /\ IdleFast /\ IdleDesc /\ IdleTitle /\ IdleMeth /\ IdleSeo /\ IdleBc /\ IdleRuns /\ IdleJobs /\ IdleUp /\ IdlePar /\ IdleJson

TocAdvance(s) ==
    /\ toc_st' = s
    /\ toc_pc' = IF s.raised THEN "raised" ELSE "loop"
    /\ toc_i' = toc_i + 1
    /\ UNCHANGED <<toc_doc, splitVars, fastVars, descVars, titleVars, methVars, seoVars, bcVars, runsVars, jobsVars, upVars, parVars, jsonVars>>

TocExecutiveSummary ==
    /\ toc_pc = "loop" /\ toc_i <= Len(toc_doc)
    /\ ~toc_st.capture /\ toc_doc[toc_i].es
    /\ TocAdvance(toc_executive_summary(toc_st, toc_i))

TocLogic1 ==
    /\ toc_pc = "loop" /\ toc_i <= Len(toc_doc)
    /\ toc_st.capture /\ logic_type = 1
    /\ TocAdvance(toc_logic_1(toc_st, toc_i))

TocLogic2 ==
    /\ toc_pc = "loop" /\ toc_i <= Len(toc_doc)
    /\ toc_st.capture /\ logic_type = 2
    /\ TocAdvance(toc_logic_2(toc_st, toc_i))

TocLogic3 ==
    /\ toc_pc = "loop" /\ toc_i <= Len(toc_doc)
    /\ toc_st.capture /\ logic_type = 3
    /\ TocAdvance(toc_logic_3(toc_st, toc_i))

\* Close any remaining lists; return "\n".join(html_output)
TocReturn ==
    /\ toc_pc = "loop" /\ toc_i > Len(toc_doc)
    /\ toc_st' = close_open_lists(toc_st)
    /\ toc_pc' = "done"
    /\ UNCHANGED <<toc_doc, toc_i, splitVars, fastVars, descVars, titleVars, methVars, seoVars, bcVars, runsVars, jobsVars, upVars, parVars, jsonVars>>

NextToc == TocExecutiveSummary \/ TocLogic1 \/ TocLogic2 \/ TocLogic3 \/ TocReturn

SpecToc == InitToc /\ [][NextToc]_vars

(***************************************************************************)
(* Claims about extract_toc.                                               *)
(***************************************************************************)
TocReturned == toc_pc = "done"

TocBalanced ==
    CountTag(toc_st.html_output, "<ul>") = CountTag(toc_st.html_output, "</ul>")

\* C1: for each of the three TOC variants and every paragraph sequence that
\* follows 'Executive Summary', the string extract_toc returns holds as many
\* <ul> as </ul>.
C1_TocListsBalanced == TocReturned => TocBalanced

\* C2: extract_toc always returns a string: no paragraph sequence makes it
\* raise.
C2_TocNeverRaises == toc_pc # "raised"

(***************************************************************************)
(* split_into_excel_cells(text, limit).  A text is a sequence of           *)
(* characters; text[i:i+limit] is the slice of at most limit characters    *)
(* that starts at the 0-based offset i.                                    *)
(***************************************************************************)
Chars == {"a", "b"}

Slice(text, i, j) ==
    SubSeq(text, i + 1, IF j < Len(text) THEN j ELSE Len(text))

\* [text[i:i+limit] for i in range(i, len(text), limit)]
RECURSIVE ChunksFrom(_, _, _)
ChunksFrom(text, i, limit) ==
    IF i >= Len(text) THEN <<>>
    ELSE <<Slice(text, i, i + limit)>> \o ChunksFrom(text, i + limit, limit)

\* a slicing that moves on by limit + 1: it loses the character between two chunks
split_skipping(text, limit) ==
    IF Len(text) = 0 THEN << <<>> >>
    ELSE [k \in 1..Len(ChunksFrom(text, 0, limit + 1)) |->
             Slice(text, (k - 1) * (limit + 1), (k - 1) * (limit + 1) + limit)]

split_into_excel_cells(text, limit) ==
    IF Len(text) = 0 THEN << <<>> >>
    ELSE ChunksFrom(text, 0, limit)

RECURSIVE Concat(_)
Concat(chunks) ==
    IF chunks = <<>> THEN <<>> ELSE Head(chunks) \o Concat(Tail(chunks))

InitSplit ==
    /\ split_text \in SeqsUpTo(Chars, MaxTextLen)
    /\ split_limit \in 1..MaxLimit
    /\ split_pc = "called"
    /\ split_chunks = <<>>
    /\ IdleToc /\ IdleFast /\ IdleDesc /\ IdleTitle /\ IdleMeth /\ IdleSeo /\ IdleBc /\ IdleRuns /\ IdleJobs /\ IdleUp /\ IdlePar /\ IdleJson

SplitReturn ==
    /\ split_pc = "called"
    /\ split_chunks' = split_into_excel_cells(split_text, split_limit)
    /\ split_pc' = "done"
    /\ UNCHANGED <<split_text, split_limit, tocVars, fastVars, descVars, titleVars, methVars, seoVars, bcVars, runsVars, jobsVars, upVars, parVars, jsonVars>>

NextSplit == SplitReturn

SpecSplit == InitSplit /\ [][NextSplit]_vars

CeilDiv(n, d) == (n + d - 1) \div d

\* C6: split_into_excel_cells on a non-empty text of length N with a limit
\* L >= 1 returns ceil(N/L) chunks whose concatenation is the text, every chunk
\* but the last of length L and the last of length 1..L; on the empty text it
\* returns the single empty chunk.
C6_SplitChunks ==
    split_pc = "done" =>
        LET N == Len(split_text)
            L == split_limit
            n == Len(split_chunks)
        IN IF N = 0 THEN split_chunks = << <<>> >>
           ELSE /\ n = CeilDiv(N, L)
                /\ Concat(split_chunks) = split_text
                /\ \A k \in 1..(n - 1) : Len(split_chunks[k]) = L
                /\ Len(split_chunks[n]) \in 1..L

\* a text that needs several chunks and leaves a shorter last one
C6_Witness ==
    /\ split_pc = "done"
    /\ Len(split_text) > 2 * split_limit
    /\ Len(split_text) % split_limit # 0
    /\ Len(split_chunks) >= 3

(***************************************************************************)
(* extract_all_data_fast(file_path).  A document is described by what the  *)
(* function and the extractors it calls make of it:                        *)
(*   label      : "next" when a paragraph that is only a title label       *)
(*                ("Report Title", "Full Title:", ...) is followed by      *)
(*                another paragraph, "last" when it is the last paragraph, *)
(*                "none" when there is no such paragraph                   *)
(*   derivable  : extract_title finds a title (it returns the sentinel     *)
(*                otherwise); a label followed by a paragraph always       *)
(*                yields one (the header / next-paragraph strategy)        *)
(*   faq        : the FAQPage JSON-LD block: "none", "invalid" (not JSON), *)
(*                "ok", or "bad_items" (a mainEntity entry that is no      *)
(*                object: item.get raises AttributeError)                  *)
(*   toc_raises : extract_toc raises on it (not_list_paragraph above)      *)
(***************************************************************************)
TitleSentinel == "Title Not Available"

FastDocs ==
    { d \in [label : {"none", "last", "next"}, derivable : BOOLEAN,
             faq : {"none", "invalid", "ok", "bad_items"}, toc_raises : BOOLEAN,
             coverage_table : BOOLEAN] :
        d.label = "next" => d.derivable }

FastFields ==
    {"title", "description", "toc", "methodology", "seo_title", "breadcrumb_text",
     "skucode", "urlrp", "breadcrumb_schema", "meta", "schema2", "report"}

\* result = {'title': '', 'description': '', ...}
FastEmptyResult == [f \in FastFields |-> ""]

\* extract_title(file_path) as the fallback sees it
fast_extract_title(d) == IF d.derivable THEN "extract_title" ELSE TitleSentinel

\* extract_methodology_from_faqschema: only json.JSONDecodeError is caught
methodology_raises(d) == d.faq = "bad_items"

fast_methodology(d) == IF d.faq = "ok" THEN "extract_methodology_from_faqschema" ELSE ""

\* the eight extractors both paths call, in the order of the calls
fast_lightweight(d, r) ==
    [r EXCEPT !.methodology = fast_methodology(d),
              !.seo_title = "extract_seo_title",
              !.breadcrumb_text = "extract_breadcrumb_text",
              !.skucode = "extract_sku_code",
              !.urlrp = "extract_sku_url",
              !.breadcrumb_schema = "extract_breadcrumb_schema",
              !.meta = "extract_meta_description",
              !.schema2 = IF d.faq = "none" THEN "" ELSE "extract_faq_schema"]

InitFast ==
    /\ fast_doc \in FastDocs
    /\ fast_pc = "try"
    /\ fast_result = FastEmptyResult
    /\ fast_failed = FALSE
    /\ IdleToc /\ IdleSplit /\ IdleDesc /\ IdleTitle /\ IdleMeth /\ IdleSeo /\ IdleBc /\ IdleRuns /\ IdleJobs /\ IdleUp /\ IdlePar /\ IdleJson

\* The single pass over doc.paragraphs and doc.tables.  At a title label the
\* code asks doc.paragraphs.index(paragraph); doc.paragraphs builds new
\* paragraph proxies on every access, so whether index finds the paragraph or
\* raises ValueError rests on the proxies' equality, which is python-docx's
\* and not this repository's: both outcomes are taken.
FastSinglePass ==
    /\ fast_pc = "try"
    /\ \E index_found \in BOOLEAN :
          IF fast_doc.label # "none" /\ ~index_found
          THEN /\ fast_pc' = "except"
               /\ fast_failed' = TRUE
               /\ UNCHANGED fast_result
          ELSE /\ fast_result' =
                    [fast_result EXCEPT
                        !.title = IF fast_doc.label = "next" THEN "next paragraph" ELSE "",
                        !.description = "description_parts",
                        !.toc = "toc_parts",
                        !.report = IF fast_doc.coverage_table THEN "report_parts" ELSE ""]
               /\ fast_pc' = "fields"
               /\ UNCHANGED fast_failed
    /\ UNCHANGED <<fast_doc, tocVars, splitVars, descVars, titleVars, methVars, seoVars, bcVars, runsVars, jobsVars, upVars, parVars, jsonVars>>

\* "Extract other fields (these are lightweight)", still inside the try
FastLightweight ==
    /\ fast_pc = "fields"
    /\ IF methodology_raises(fast_doc)
       THEN /\ fast_pc' = "except"
            /\ fast_failed' = TRUE
            /\ UNCHANGED fast_result
       ELSE /\ fast_result' = fast_lightweight(fast_doc, fast_result)
            /\ fast_pc' = "returned"
            /\ UNCHANGED fast_failed
    /\ UNCHANGED <<fast_doc, tocVars, splitVars, descVars, titleVars, methVars, seoVars, bcVars, runsVars, jobsVars, upVars, parVars, jsonVars>>

\* except Exception: the dictionary of the twelve individual extractions, built
\* entry by entry with nothing around an entry to catch what it raises
FastFallback ==
    /\ fast_pc = "except"
    /\ IF fast_doc.toc_raises \/ methodology_raises(fast_doc)
       THEN /\ fast_pc' = "raised"
            /\ UNCHANGED fast_result
       ELSE /\ fast_result' =
                    fast_lightweight(fast_doc,
                        [FastEmptyResult EXCEPT
                            !.title = fast_extract_title(fast_doc),
                            !.description = "extract_description",
                            !.toc = "extract_toc",
                            !.report = IF fast_doc.coverage_table
                                       THEN "extract_report_coverage_table_with_style"
                                       ELSE ""])
            /\ fast_pc' = "returned"
    /\ UNCHANGED <<fast_doc, fast_failed, tocVars, splitVars, descVars, titleVars, methVars, seoVars, bcVars, runsVars, jobsVars, upVars, parVars, jsonVars>>

NextFast == FastSinglePass \/ FastLightweight \/ FastFallback

SpecFast == InitFast /\ [][NextFast]_vars

FastEnded == fast_pc \in {"returned", "raised"}

\* C7: when the single pass of extract_all_data_fast fails on a document that
\* loads, the call still returns a complete record of the twelve fields, built
\* by the individual extractors: no field's failure prevents the others.
C7_FallbackReturnsRecord ==
    (fast_failed /\ FastEnded) =>
        /\ fast_pc = "returned"
        /\ DOMAIN fast_result = FastFields

\* C8: for a document from which no title can be derived, the title field of
\* the record extract_all_data_fast returns is exactly "Title Not Available",
\* on the single-pass path and on the fallback path.
C8_FastTitleSentinel ==
    (fast_pc = "returned" /\ ~fast_doc.derivable) =>
        fast_result.title = TitleSentinel

(***************************************************************************)
(* extract_description(docx_path).  A block of doc.element.body is a table *)
(* or a paragraph with text; of a paragraph the loop reads                 *)
(*   head      : the index in target_headings of the first target heading  *)
(*               its cleaned text contains, 0 when it contains none        *)
(*   boundary  : the cleaned text contains one of the end phrases          *)
(*   region    : the regional heading it contains, "none" otherwise        *)
(*   standalone: the verdict of the standalone tests (short, unpunctuated) *)
(*   opp       : "opportunities" / "restraints" when it contains the word  *)
(*   by        : the "by x" segmentation heading it starts with, or "none" *)
(*   sub       : the text starts with a multi-level number ("1.1 ...")     *)
(*   wlist     : is_list_item(para)                                        *)
(*   bold      : "all" when the content is one bold run, shorter than 80   *)
(*               characters and not ending with ':'; "lead" when it starts *)
(*               with a bold run that plain text follows; else "none"      *)
(*   boldText  : the text of that first bold run                           *)
(*   long      : len(content) >= 200                                       *)
(***************************************************************************)
target_headings ==
    << "introduction and strategic context",
       "market segmentation and forecast scope",
       "market trends and innovation landscape",
       "competitive intelligence and benchmarking",
       "regional landscape and adoption outlook",
       "end-user dynamics and use case",
       "recent developments + opportunities & restraints",
       "opportunities & restraints" >>

\* matched_heading.title()
TitleCased ==
    << "Introduction And Strategic Context",
       "Market Segmentation And Forecast Scope",
       "Market Trends And Innovation Landscape",
       "Competitive Intelligence And Benchmarking",
       "Regional Landscape And Adoption Outlook",
       "End-User Dynamics And Use Case",
       "Recent Developments + Opportunities & Restraints",
       "Opportunities & Restraints" >>

Block(table, head, boundary, region, standalone, opp, by, sub, wlist, bold, boldText, long) ==
    [table |-> table, head |-> head, boundary |-> boundary, region |-> region,
     standalone |-> standalone, opp |-> opp, by |-> by, sub |-> sub, wlist |-> wlist,
     bold |-> bold, boldText |-> boldText, long |-> long]

PlainPara == Block(FALSE, 0, FALSE, "none", FALSE, "none", "none", FALSE, FALSE, "none", "", FALSE)

DescBlockKinds ==
    { [PlainPara EXCEPT !.table = TRUE] }
    \cup { [PlainPara EXCEPT !.head = k] : k \in 1..Len(target_headings) }
    \cup { PlainPara,
           [PlainPara EXCEPT !.boundary = TRUE],                \* "Report Title ..."
           [PlainPara EXCEPT !.long = TRUE],
           [PlainPara EXCEPT !.wlist = TRUE],
           [PlainPara EXCEPT !.sub = TRUE],                     \* "1.1 Scope"
           [PlainPara EXCEPT !.region = "europe", !.standalone = TRUE],
           [PlainPara EXCEPT !.region = "europe", !.bold = "lead", !.boldText = "Europe"],
           \* bold "Regional Landscape And Adoption Outlook" followed by ": Europe"
           [PlainPara EXCEPT !.head = 5, !.region = "europe", !.standalone = TRUE,
                             !.bold = "lead", !.boldText = TitleCased[5]],
           [PlainPara EXCEPT !.by = "by type", !.standalone = TRUE],
           [PlainPara EXCEPT !.opp = "opportunities"],
           [PlainPara EXCEPT !.bold = "all", !.boldText = "Acme"],
           [PlainPara EXCEPT !.bold = "lead", !.boldText = "Globex"] }

\* an entry of html_output: its tag, the block it renders, the text of a heading
DTok(tag, src, text) == [tag |-> tag, src |-> src, text |-> text]
NBSP == DTok("&nbsp;", 0, "")

has_h2(out) == \E k \in 1..Len(out) : out[k].tag = "<h2>"

\* if not html_output or html_output[-1] != "&nbsp;": html_output.append("&nbsp;")
nbsp_above(s) ==
    IF s.html_output = <<>> \/ s.html_output[Len(s.html_output)] # NBSP
    THEN [s EXCEPT !.html_output = Append(@, NBSP)]
    ELSE s

\* add_nbsp_safely(): nothing before the first <h2>
add_nbsp_safely(s) ==
    IF has_h2(s.html_output) THEN nbsp_above(s) ELSE s

\* if inside_list: html_output.append(f"</{inside_list}>"); inside_list = None
\* the open list is forgotten without its closing tag
desc_forget_list(s) ==
    IF s.inside_list # "None"
    THEN [s EXCEPT !.inside_list = "None"]
    ELSE s

desc_close_list(s) ==
    IF s.inside_list # "None"
    THEN [s EXCEPT !.html_output = Append(@, DTok("</ul>", 0, "")), !.inside_list = "None"]
    ELSE s

\* the section flags a target heading sets and clears
section_flags(s, k) ==
    CASE k = 1 -> [s EXCEPT !.inside_introduction_section = TRUE,
                            !.inside_regional_section = FALSE,
                            !.inside_recent_developments_section = FALSE,
                            !.inside_segmentation_section = FALSE]
      [] k = 2 -> [s EXCEPT !.inside_introduction_section = FALSE,
                            !.inside_regional_section = FALSE,
                            !.inside_recent_developments_section = FALSE,
                            !.inside_segmentation_section = TRUE,
                            !.inside_segmentation_subheading = FALSE,
                            !.inside_market_trends_section = FALSE,
                            !.inside_market_segmentation_section = TRUE]
      [] k = 3 -> [s EXCEPT !.inside_introduction_section = FALSE,
                            !.inside_regional_section = FALSE,
                            !.inside_recent_developments_section = FALSE,
                            !.inside_segmentation_section = FALSE,
                            !.inside_segmentation_subheading = FALSE,
                            !.inside_market_segmentation_section = FALSE,
                            !.inside_market_trends_section = TRUE]
      [] k = 4 -> [s EXCEPT !.inside_introduction_section = FALSE,
                            !.inside_regional_section = FALSE,
                            !.inside_recent_developments_section = FALSE,
                            !.inside_segmentation_section = FALSE,
                            !.inside_segmentation_subheading = FALSE,
                            !.inside_market_trends_section = FALSE,
                            !.inside_competitive_intelligence_section = TRUE]
      [] k = 5 -> [s EXCEPT !.inside_regional_section = TRUE,
                            !.inside_recent_developments_section = FALSE,
                            !.inside_introduction_section = FALSE,
                            !.inside_segmentation_section = FALSE,
                            !.inside_segmentation_subheading = FALSE,
                            !.inside_market_trends_section = FALSE,
                            !.inside_competitive_intelligence_section = FALSE,
                            !.inside_regional_landscape_section = TRUE]
      [] k = 7 -> [s EXCEPT !.inside_recent_developments_section = TRUE,
                            !.inside_regional_section = FALSE,
                            !.inside_introduction_section = FALSE,
                            !.inside_segmentation_section = FALSE,
                            !.inside_segmentation_subheading = FALSE,
                            !.inside_market_trends_section = FALSE,
                            !.inside_competitive_intelligence_section = FALSE,
                            !.inside_end_user_dynamics_section = FALSE]
      [] k = 6 -> [s EXCEPT !.inside_regional_section = FALSE,
                            !.inside_recent_developments_section = FALSE,
                            !.inside_introduction_section = FALSE,
                            !.inside_segmentation_section = FALSE,
                            !.inside_segmentation_subheading = FALSE,
                            !.inside_market_trends_section = FALSE,
                            !.inside_competitive_intelligence_section = FALSE,
                            !.inside_regional_landscape_section = FALSE,
                            !.inside_end_user_dynamics_section = TRUE]
      [] OTHER -> s

\* a target heading not yet in used_headings: flags, close the list, spacer, <h2>
desc_main_heading(s, i, k) ==
    LET f == desc_close_list(section_flags(s, k))
        n == IF k # 1 THEN add_nbsp_safely(f) ELSE f
    IN [n EXCEPT !.html_output = Append(@, DTok("<h2>", i, TitleCased[k])),
                 !.used_headings = @ \cup {target_headings[k]}]

\* a regional heading inside the regional section, not yet in used_headings
desc_regional(s, i) ==
    LET p == desc_doc[i]
        c == desc_close_list(s)
    IN IF p.standalone
       THEN LET n == add_nbsp_safely(c)
                r == IF n.inside_regional_landscape_section THEN nbsp_above(n) ELSE n
                \* the text of the first <b> run when the content has one
                title_text == IF p.bold # "none" THEN p.boldText ELSE "text"
            IN [r EXCEPT !.html_output = Append(@, DTok("<h2>", i, title_text)),
                         !.used_headings = @ \cup {p.region}]
       ELSE LET r == IF c.inside_regional_landscape_section /\ ~p.wlist /\ p.bold = "lead"
                     THEN nbsp_above(c) ELSE c
            IN [r EXCEPT !.html_output = Append(@, DTok("<p>", i, ""))]

\* "opportunities" / "restraints" inside the recent developments section
desc_opportunities(s, i) ==
    LET p == desc_doc[i]
        n == add_nbsp_safely(desc_close_list(s))
    IN [n EXCEPT !.html_output = Append(@, DTok("<h2>", i, p.opp)),
                 !.used_headings = @ \cup {p.opp}]

\* a "By X" heading inside the segmentation section
desc_segmentation(s, i) ==
    LET p == desc_doc[i]
        c == desc_close_list(s)
    IN IF p.standalone
       THEN LET n == add_nbsp_safely([c EXCEPT !.inside_segmentation_subheading = TRUE])
                r == IF n.inside_market_segmentation_section THEN nbsp_above(n) ELSE n
            IN [r EXCEPT !.html_output = Append(@, DTok("<h2>", i, "text")),
                         !.used_headings = @ \cup {p.by}]
       ELSE [c EXCEPT !.html_output = Append(@, DTok("<p>", i, ""))]

\* one of the four per-section spacer rules of the plain-paragraph branch; two
\* bold words are the same company exactly when they are equal here
spacer_rule(s, p) ==
    LET noted == IF p.bold # "none" THEN [s EXCEPT !.previous_bold_word = p.boldText] ELSE s
        should_add_nbsp == p.bold # "none" /\ p.boldText # s.previous_bold_word
    IN IF should_add_nbsp THEN nbsp_above(noted) ELSE noted

\* the else branch: a plain paragraph
desc_plain(s, i) ==
    LET p == desc_doc[i]
        c == desc_close_list(s)
        out == c.html_output
        is_after_main_heading == out # <<>> /\ out[Len(out)].tag = "<h2>"
        gate(flag) == flag /\ ~p.wlist /\ ~is_after_main_heading
        a == IF gate(c.inside_market_trends_section) THEN spacer_rule(c, p) ELSE c
        b == IF gate(a.inside_competitive_intelligence_section) THEN spacer_rule(a, p) ELSE a
        d == IF gate(b.inside_end_user_dynamics_section) THEN spacer_rule(b, p) ELSE b
        e == IF gate(d.inside_regional_landscape_section) THEN spacer_rule(d, p) ELSE d
        f == IF e.inside_market_segmentation_section /\ p.bold = "all" /\ ~is_after_main_heading
             THEN nbsp_above(e) ELSE e
        g == [f EXCEPT !.html_output = Append(@, DTok("<p>", i, ""))]
        h == IF /\ p.long
                /\ ~g.inside_market_trends_section
                /\ ~g.inside_competitive_intelligence_section
                /\ ~g.inside_end_user_dynamics_section
                /\ ~g.inside_regional_landscape_section
                /\ ~g.inside_market_segmentation_section
             THEN [g EXCEPT !.html_output = Append(@, NBSP)] ELSE g
    IN [h EXCEPT !.inside_segmentation_subheading = FALSE]

\* the body of "if capture:" for one paragraph
desc_paragraph(s, i) ==
    LET p == desc_doc[i]
        matched_heading == p.head
        segmentation_heading == IF s.inside_segmentation_section THEN p.by ELSE "none"
    IN IF matched_heading # 0 /\ target_headings[matched_heading] \notin s.used_headings
       THEN desc_main_heading(s, i, matched_heading)
       ELSE IF p.region # "none" /\ s.inside_regional_section /\ p.region \notin s.used_headings
       THEN desc_regional(s, i)
       ELSE IF p.opp # "none" /\ s.inside_recent_developments_section
               /\ p.opp \notin s.used_headings
       THEN desc_opportunities(s, i)
       ELSE IF segmentation_heading # "none" /\ segmentation_heading \notin s.used_headings
       THEN desc_segmentation(s, i)
       ELSE IF p.sub
       THEN [desc_close_list(s) EXCEPT !.html_output = Append(@, DTok("<h3>", i, ""))]
       ELSE IF p.wlist
       THEN LET o == IF s.inside_list # "ul"
                     THEN [desc_close_list(s) EXCEPT !.html_output = Append(@, DTok("<ul>", 0, "")),
                                                     !.inside_list = "ul"]
                     ELSE s
            IN [o EXCEPT !.html_output = Append(@, DTok("<li>", i, ""))]
       ELSE desc_plain(s, i)

DescDocs == SeqsUpTo(DescBlockKinds, MaxDescBlocks)

InitDesc ==
    /\ desc_doc \in DescDocs
    /\ desc_pc = "loop"
    /\ desc_i = 1
    /\ desc_st = DescLocals
    /\ IdleToc /\ IdleSplit /\ IdleFast /\ IdleTitle /\ IdleMeth /\ IdleSeo /\ IdleBc /\ IdleRuns /\ IdleJobs /\ IdleUp /\ IdlePar /\ IdleJson

DescInLoop == desc_pc = "loop" /\ desc_i <= Len(desc_doc)

\* "Start capture": the first paragraph that contains a target heading
starts_capture(s, p) == ~s.capture /\ p.head # 0

\* a paragraph before the capture starts: nothing is emitted
DescSkip ==
    /\ DescInLoop
    /\ ~desc_doc[desc_i].table
    /\ ~desc_st.capture /\ ~starts_capture(desc_st, desc_doc[desc_i])
    /\ desc_i' = desc_i + 1
    /\ UNCHANGED <<desc_doc, desc_pc, desc_st, tocVars, splitVars, fastVars, titleVars, methVars, seoVars, bcVars, runsVars, jobsVars, upVars, parVars, jsonVars>>

\* a paragraph of the capture window (the one that starts it included)
DescParagraph ==
    /\ DescInLoop
    /\ ~desc_doc[desc_i].table
    /\ desc_st.capture \/ starts_capture(desc_st, desc_doc[desc_i])
    /\ ~desc_doc[desc_i].boundary
    /\ desc_st' = desc_paragraph([desc_st EXCEPT !.capture = TRUE], desc_i)
    /\ desc_i' = desc_i + 1
    /\ UNCHANGED <<desc_doc, desc_pc, tocVars, splitVars, fastVars, titleVars, methVars, seoVars, bcVars, runsVars, jobsVars, upVars, parVars, jsonVars>>

\* "End capture": break at an end phrase once the capture has started, then
\* close the open list and return
DescBreak ==
    /\ DescInLoop
    /\ ~desc_doc[desc_i].table
    /\ desc_st.capture \/ starts_capture(desc_st, desc_doc[desc_i])
    /\ desc_doc[desc_i].boundary
    /\ desc_st' = desc_close_list([desc_st EXCEPT !.capture = TRUE])
    /\ desc_pc' = "done"
    /\ UNCHANGED <<desc_doc, desc_i, tocVars, splitVars, fastVars, titleVars, methVars, seoVars, bcVars, runsVars, jobsVars, upVars, parVars, jsonVars>>

\* a table: last_heading is never "report coverage table", the table is appended
DescTable ==
    /\ DescInLoop
    /\ desc_doc[desc_i].table
    /\ desc_st' = [desc_st EXCEPT !.html_output = Append(@, DTok("<table>", desc_i, ""))]
    /\ desc_i' = desc_i + 1
    /\ UNCHANGED <<desc_doc, desc_pc, tocVars, splitVars, fastVars, titleVars, methVars, seoVars, bcVars, runsVars, jobsVars, upVars, parVars, jsonVars>>

\* the end of the body: close the open list and return
DescReturn ==
    /\ desc_pc = "loop" /\ desc_i > Len(desc_doc)
    /\ desc_st' = desc_close_list(desc_st)
    /\ desc_pc' = "done"
    /\ UNCHANGED <<desc_doc, desc_i, tocVars, splitVars, fastVars, titleVars, methVars, seoVars, bcVars, runsVars, jobsVars, upVars, parVars, jsonVars>>

NextDesc == DescSkip \/ DescParagraph \/ DescBreak \/ DescTable \/ DescReturn

SpecDesc == InitDesc /\ [][NextDesc]_vars

(***************************************************************************)
(* Claims about extract_description.                                       *)
(***************************************************************************)
\* the first paragraph that contains a target heading (past the end when none)
WindowStart ==
    LET hs == { k \in 1..Len(desc_doc) : ~desc_doc[k].table /\ desc_doc[k].head # 0 }
    IN IF hs = {} THEN Len(desc_doc) + 1 ELSE Min(hs)

\* the first end-phrase paragraph from there on (past the end when none)
WindowEnd ==
    LET bs == { k \in WindowStart..Len(desc_doc) :
                    ~desc_doc[k].table /\ desc_doc[k].boundary }
    IN IF bs = {} THEN Len(desc_doc) + 1 ELSE Min(bs)

\* C9: extract_description emits output only for blocks of the capture window:
\* no paragraph or table before the first target-heading paragraph and none
\* after the first boundary-phrase paragraph contributes to the output.
C9_DescOnlyWindow ==
    \A k \in 1..Len(desc_st.html_output) :
        LET src == desc_st.html_output[k].src
        IN src > 0 => (WindowStart <= src /\ src < WindowEnd)

\* C10: within one extract_description call each of the eight target headings
\* is emitted as an <h2> at most once.
C10_HeadingOnce ==
    \A h \in 1..Len(target_headings) :
        Cardinality({ k \in 1..Len(desc_st.html_output) :
                        /\ desc_st.html_output[k].tag = "<h2>"
                        /\ desc_st.html_output[k].text = TitleCased[h] }) <= 1


\* the lists open after the first n tokens of an output
OpenLists(out, n) ==
    Cardinality({ k \in 1..n : out[k].tag = "<ul>" })
        - Cardinality({ k \in 1..n : out[k].tag = "</ul>" })

\* C11: in extract_description at most one list is open at any time, and the
\* returned output has as many <ul> as </ul> tokens, also when the loop
\* stops at a boundary phrase while a list is open.
C11_DescListsBalanced ==
    /\ \A n \in 0..Len(desc_st.html_output) :
           OpenLists(desc_st.html_output, n) \in {0, 1}
    /\ OpenLists(desc_st.html_output, Len(desc_st.html_output)) =
           (IF desc_st.inside_list = "None" THEN 0 ELSE 1)
    /\ desc_pc = "done" =>
           CountTag(desc_st.html_output, "<ul>") = CountTag(desc_st.html_output, "</ul>")

\* the loop has stopped at a boundary phrase right after a list item: the
\* list it left open is closed by the last token of the output
C11_Witness ==
    /\ desc_pc = "done"
    /\ desc_i <= Len(desc_doc)
    /\ desc_doc[desc_i].boundary
    /\ Len(desc_st.html_output) >= 3
    /\ desc_st.html_output[Len(desc_st.html_output)].tag = "</ul>"
    /\ desc_st.html_output[Len(desc_st.html_output) - 1].tag = "<li>"


(***************************************************************************)
(* extract_title.                                                          *)
(*                                                                         *)
(* A text is a sequence of pieces; the text itself is the pieces joined by *)
(* one space.  A piece is a word or a phrase that the regular expressions  *)
(* of the title chain treat as a unit (a "By ..." clause, the year range,  *)
(* the label of a title line).  "2024-2030" stands for the year range      *)
(* written with the en dash DASH.  The file name is a text as well.        *)
(***************************************************************************)
MaxTitleParas == 3    \* paragraphs of a document given to extract_title

LabelPiece == "Report Title (Long-Form):"

YearPiece == "2024-2030"

ForecastPiece == "Forecast,"

SegRevPiece == "Segment Revenue Estimation,"

\* the pieces that begin with "By " followed by a word: the matches of \bby\s+\w
ByPieces ==
    {"By Material (A, B)", "By Grade (C, D)",
     "By Type", "By Product Type", "By Application", "By Region",
     "By Product Type (...)", "By Application (...)", "By Geography"}

\* str.lower() of a piece
lower(piece) ==
    CASE piece = "Acme" -> "acme"
      [] piece = "Widget" -> "widget"
      [] piece = "Market" -> "market"
      [] piece = "Hello world" -> "hello world"
      [] piece = LabelPiece -> "report title (long-form):"
      [] piece = ForecastPiece -> "forecast,"
      [] piece = SegRevPiece -> "segment revenue estimation,"
      [] piece = "By Material (A, B)" -> "by material (a, b)"
      [] piece = "By Grade (C, D)" -> "by grade (c, d)"
      [] piece = "By Type" -> "by type"
      [] piece = "By Product Type" -> "by product type"
      [] piece = "By Application" -> "by application"
      [] piece = "By Region" -> "by region"
      [] piece = "By Product Type (...)" -> "by product type (...)"
      [] piece = "By Application (...)" -> "by application (...)"
      [] piece = "By Geography" -> "by geography"
      [] OTHER -> piece

\* len() of a piece
piece_len(piece) ==
    CASE piece \in {"Acme", "acme"} -> 4
      [] piece \in {"Form):", "Widget", "widget", "Market", "market"} -> 6
      [] piece \in {"By Type"} -> 7
      [] piece \in {YearPiece, ForecastPiece, "By Region"} -> 9
      [] piece \in {"Hello world"} -> 11
      [] piece \in {"By Geography"} -> 12
      [] piece \in {"trailing text"} -> 13
      [] piece \in {"By Application"} -> 14
      [] piece \in {"By Grade (C, D)", "By Product Type"} -> 15
      [] piece \in {"By Material (A, B)"} -> 18
      [] piece \in {TitleSentinel} -> 19
      [] piece \in {"By Application (...)"} -> 20
      [] piece \in {"By Product Type (...)"} -> 21
      [] piece \in {LabelPiece} -> 25
      [] piece \in {SegRevPiece} -> 27

\* len(piece.split())
piece_words(piece) ==
    CASE piece \in {"Hello world", "trailing text", "By Type", "By Region",
                    "By Application", "By Geography"} -> 2
      [] piece \in {LabelPiece, SegRevPiece, TitleSentinel, "By Product Type",
                    "By Application (...)"} -> 3
      [] piece \in {"By Material (A, B)", "By Grade (C, D)",
                    "By Product Type (...)"} -> 4
      [] OTHER -> 1

RECURSIVE text_len(_)
\* len(text)
text_len(t) ==
    IF t = <<>> THEN 0
    ELSE piece_len(Head(t)) + (IF Len(t) > 1 THEN 1 ELSE 0) + text_len(Tail(t))

RECURSIVE word_count(_)
\* len(text.split())
word_count(t) ==
    IF t = <<>> THEN 0 ELSE piece_words(Head(t)) + word_count(Tail(t))

\* text.lower()
text_lower(t) == [i \in 1..Len(t) |-> lower(t[i])]

\* "market" in low
has_market(t) == \E i \in 1..Len(t) : lower(t[i]) = "market"

\* len(re.findall(r"\bby\s+\w", low))
by_count(t) == Cardinality({ i \in 1..Len(t) : t[i] \in ByPieces })

\* " by " in title_lower: a "By" clause that is not the start of the text
has_inner_by(t) == \E i \in 2..Len(t) : t[i] \in ByPieces

\* "forecast" in low
has_forecast(t) == \E i \in 1..Len(t) : t[i] = ForecastPiece

\* "segment revenue estimation" in low
has_segment_revenue(t) == \E i \in 1..Len(t) : t[i] = SegRevPiece

\* the first position of a piece in a text, 0 when it is absent
first_index(t, piece) ==
    IF \E i \in 1..Len(t) : t[i] = piece
    THEN Min({ i \in 1..Len(t) : t[i] = piece })
    ELSE 0

_year_range_present(t) == first_index(t, YearPiece) > 0

\* candidate[:yr.end()]: the text cut at the end of its first year range
cut_at_year_range(t) == SubSeq(t, 1, first_index(t, YearPiece))

\* title_lower.startswith(filename_lower)
starts_with(t, filename) ==
    /\ Len(t) >= Len(filename)
    /\ text_lower(SubSeq(t, 1, Len(filename))) = text_lower(filename)

\* the words of the file name that are not in the excluded list
filename_keywords(filename, excluded) ==
    { lower(filename[i]) : i \in 1..Len(filename) } \ excluded

\* sum(1 for kw in filename_keywords if kw in title_normalized)
matching_keywords(filename, excluded, t) ==
    Cardinality({ kw \in filename_keywords(filename, excluded) :
                    \E i \in 1..Len(t) : lower(t[i]) = kw })

\* the duplicated market names of a title: a run of pieces ending in "Market"
\* that is repeated at once and then followed by a "By" clause
duplicate_market_names(t) ==
    { ik \in (1..Len(t)) \X (1..Len(t)) :
        LET i == ik[1]
            k == ik[2]
        IN /\ i + 2 * k <= Len(t)
           /\ text_lower(SubSeq(t, i, i + k - 1)) =
                  text_lower(SubSeq(t, i + k, i + 2 * k - 1))
           /\ lower(t[i + k - 1]) = "market"
           /\ t[i + 2 * k] \in ByPieces }

\* "X Market X Market By" becomes "X Market By"; the other substitutions
\* remove "(Structured):" and narrative parentheticals
_clean_final_title(t) ==
    IF t = <<>> \/ duplicate_market_names(t) = {} THEN t
    ELSE LET i == Min({ ik[1] : ik \in duplicate_market_names(t) })
             k == Min({ ik[2] : ik \in { d \in duplicate_market_names(t) : d[1] = i } })
         IN SubSeq(t, 1, i + k - 1) \o SubSeq(t, i + 2 * k, Len(t))

\* the title is taken to be complete: no file name is put in front of it
looks_complete(title, filename) ==
    /\ has_inner_by(title)
    /\ has_market(title)
    /\ \/ matching_keywords(filename, {"market", "the", "and", "or"}, title) >=
              Min({2, Cardinality(filename_keywords(filename, {"market", "the", "and", "or"}))})
       \/ by_count(title) >= 2

_ensure_filename_start_and_year(title, filename) ==
    LET excluded == {"market", "the", "and", "or"}
        prepend ==
            /\ ~looks_complete(title, filename)
            /\ matching_keywords(filename, excluded, title) <
                   Min({3, Cardinality(filename_keywords(filename, excluded))})
            /\ ~starts_with(title, filename)
        t1 == IF prepend THEN filename \o title ELSE title
        t2 == IF ~_year_range_present(t1) THEN t1 \o <<YearPiece>> ELSE t1
    IN _clean_final_title(t2)

\* HEADER_LINE_RE.match(text): the label of a title line and nothing else
is_header_line(text) == text = <<LabelPiece>>

\* the long-form test of _extract_labeled_inline_title
looks_long_form(candidate) ==
    /\ has_market(candidate)
    /\ \/ has_segment_revenue(candidate)
       \/ (has_forecast(candidate) /\ _year_range_present(candidate))
       \/ (by_count(candidate) >= 2 /\ _year_range_present(candidate))

\* the candidate is returned whole, the text after the year range included
labeled_inline_title_untrimmed(text) ==
    IF text = <<>> \/ Head(text) # LabelPiece THEN <<>>
    ELSE LET candidate == Tail(text)
         IN IF ~looks_long_form(candidate) THEN <<>>
            ELSE candidate

\* <<>> is the empty string: no title on this line
_extract_labeled_inline_title(text) ==
    IF text = <<>> \/ Head(text) # LabelPiece THEN <<>>
    ELSE LET candidate == Tail(text)
         IN IF ~looks_long_form(candidate) THEN <<>>
            ELSE IF _year_range_present(candidate)
                 THEN cut_at_year_range(candidate)
                 ELSE candidate

\* the titles a document can carry: "Widget Market", `by' "By" clauses,
\* "Forecast,", the year range, text after the year range
TitleBody(by, fc, yr, tail) ==
    <<"Widget", "Market">>
      \o (IF by >= 1 THEN <<"By Material (A, B)">> ELSE <<>>)
      \o (IF by >= 2 THEN <<"By Grade (C, D)">> ELSE <<>>)
      \o (IF fc THEN <<ForecastPiece>> ELSE <<>>)
      \o (IF yr THEN <<YearPiece>> ELSE <<>>)
      \o (IF tail THEN <<"trailing text">> ELSE <<>>)

\* a paragraph: its text, and whether short lines of values ("Alpha One",
\* "Beta Two") follow it in the document
TitlePara(text, vals) == [text |-> text, vals |-> vals]

TitleBodyShapes ==
    { <<FALSE, FALSE, FALSE>>, <<FALSE, TRUE, FALSE>>,
      <<TRUE, TRUE, FALSE>>, <<TRUE, TRUE, TRUE>> }

TitleParaKinds ==
    { TitlePara(<<"Hello world">>, FALSE), TitlePara(<<LabelPiece>>, FALSE) }
    \cup { TitlePara(<<LabelPiece>> \o TitleBody(by, sh[1], sh[2], sh[3]), FALSE) :
               by \in {1, 2}, sh \in TitleBodyShapes }
    \cup { TitlePara(TitleBody(1, TRUE, TRUE, FALSE), FALSE),
           TitlePara(TitleBody(2, FALSE, TRUE, FALSE), FALSE),
           TitlePara(TitleBody(2, TRUE, TRUE, TRUE), FALSE),
           TitlePara(TitleBody(0, FALSE, FALSE, FALSE), FALSE) }
    \cup { TitlePara(<<"By Type">>, FALSE), TitlePara(<<"By Type">>, TRUE),
           TitlePara(<<"By Application">>, FALSE), TitlePara(<<"By Application">>, TRUE),
           TitlePara(<<"By Product Type">>, TRUE), TitlePara(<<"By Region">>, FALSE) }

TitleDocs == SeqsUpTo(TitleParaKinds, MaxTitleParas)

\* doc.tables: no table, one cell with a labelled title, a label cell and
\* the cell to its right
TitleTables ==
    { <<>>,
      << <<LabelPiece>> \o TitleBody(2, TRUE, TRUE, TRUE) >>,
      << <<LabelPiece>>, <<"Hello world">> >> }

TitleFilenames == { <<"Acme">>, <<"Widget", "Market">>, <<"widget", "market">> }

\* the first paragraph of a set of positions, 0 when the set is empty
first_of(S) == IF S = {} THEN 0 ELSE Min(S)

\* the test both branches of Priority -1 apply to the text under a label line
is_long_form_text(t) ==
    \/ (has_segment_revenue(t) /\ has_forecast(t) /\ _year_range_present(t))
    \/ (by_count(t) >= 2 /\ has_market(t) /\ _year_range_present(t))

\* Priority -1 finds nothing: the chain starts with the inline strategy
header_next_skipped(doc, filename) == <<>>

\* Priority -1: a label line followed by a paragraph that holds the title.
\* No paragraph of the vocabulary holds a line break.
header_next_title(doc, filename) ==
    LET i == first_of({ k \in 1..(Len(doc) - 1) :
                          /\ is_header_line(doc[k].text)
                          /\ text_len(doc[k + 1].text) >= 40
                          /\ is_long_form_text(doc[k + 1].text) })
    IN IF i = 0 THEN <<>>
       ELSE _ensure_filename_start_and_year(doc[i + 1].text, filename)

\* Priority 0, paragraphs: the first labelled line that holds a long-form title
inline_paragraph_title(doc, filename) ==
    LET i == first_of({ k \in 1..Len(doc) :
                          _extract_labeled_inline_title(doc[k].text) # <<>> })
    IN IF i = 0 THEN <<>>
       ELSE _ensure_filename_start_and_year(
                _extract_labeled_inline_title(doc[i].text), filename)

\* Priority 0, tables: the same over the cells
inline_cell_title(tbl, filename) ==
    LET c == first_of({ k \in 1..Len(tbl) :
                          _extract_labeled_inline_title(tbl[k]) # <<>> })
    IN IF c = 0 THEN <<>>
       ELSE _ensure_filename_start_and_year(
                _extract_labeled_inline_title(tbl[c]), filename)

\* _inline_title of a line that starts with the label: the line is split at
\* its first ":", "-" or dash, which is the hyphen of "Long-Form"
_inline_title(text) ==
    LET right == <<"Form):">> \o Tail(text)
    IN IF /\ text_len(right) >= 25
          /\ (has_market(right) \/ by_count(right) >= 1 \/ has_segment_revenue(right))
       THEN right
       ELSE <<>>

\* the capture loop: the block after the first label line is the title
capture_title(doc, filename) ==
    LET i == first_of({ k \in 1..Len(doc) : is_header_line(doc[k].text) })
    IN IF i = 0 THEN <<>>
       ELSE IF _inline_title(doc[i].text) # <<>>
            THEN _ensure_filename_start_and_year(_inline_title(doc[i].text), filename)
            ELSE IF i < Len(doc)
                 THEN _ensure_filename_start_and_year(doc[i + 1].text, filename)
                 ELSE <<>>

\* the label lookup in tables: "report title" in a cell, the title in that
\* cell or in the cell to its right (the table has one row)
table_label_title(tbl, filename) ==
    LET c == first_of({ k \in 1..Len(tbl) :
                          /\ \E j \in 1..Len(tbl[k]) : tbl[k][j] = LabelPiece
                          /\ \/ _extract_labeled_inline_title(tbl[k]) # <<>>
                             \/ k + 1 <= Len(tbl) })
    IN IF c = 0 THEN <<>>
       ELSE IF _extract_labeled_inline_title(tbl[c]) # <<>>
            THEN _ensure_filename_start_and_year(
                     _extract_labeled_inline_title(tbl[c]), filename)
            ELSE _ensure_filename_start_and_year(tbl[c + 1], filename)

\* filename_forecast_candidates: paragraphs that start with the file name
\* and mention a forecast; none of the vocabulary holds "(e.g."
filename_forecast_title(doc, filename) ==
    LET i == first_of({ k \in 1..Len(doc) :
                          /\ starts_with(doc[k].text, filename)
                          /\ has_forecast(doc[k].text) })
    IN IF i = 0 THEN <<>>
       ELSE _ensure_filename_start_and_year(doc[i].text, filename)

\* the keys of the dictionary `segments' that the vocabulary can fill, in the
\* order of the elif chain that fills segment_indices
SegmentKinds == <<"diagnostic", "treatment", "region">>

\* the pieces that mark a segment of a kind: "by type" / "by product type",
\* "by application", "by region"
marker_pieces(kind) ==
    CASE kind = "diagnostic" -> {"By Type", "By Product Type"}
      [] kind = "treatment" -> {"By Application"}
      [] kind = "region" -> {"By Region"}

\* the paragraph is taken as the header of a segment of the kind ("market
\* analysis" is in no text of the vocabulary)
marks_segment(text, kind) ==
    /\ \E j \in 1..Len(text) : text[j] \in marker_pieces(kind)
    /\ (text_len(text) < 100 \/ Head(text) \in marker_pieces(kind))

\* the keys of `segments' after the detection loop
segments(doc) ==
    { SegmentKinds[n] : n \in { m \in 1..Len(SegmentKinds) :
          \E k \in 1..Len(doc) : marks_segment(doc[k].text, SegmentKinds[m]) } }

\* the branch of the elif chain a paragraph takes, 0 when it takes none
chain_branch(text) ==
    first_of({ n \in 1..Len(SegmentKinds) : marks_segment(text, SegmentKinds[n]) })

\* segment_indices[kind], 0 when the key is missing: the first header of
\* the "diagnostic" kind, the last header of every other kind
segment_index(doc, kind) ==
    LET S == { k \in 1..Len(doc) :
                 /\ chain_branch(doc[k].text) # 0
                 /\ SegmentKinds[chain_branch(doc[k].text)] = kind }
    IN IF S = {} THEN 0 ELSE IF kind = "diagnostic" THEN Min(S) ELSE Max(S)

\* extract_segment_values(para_idx) is not empty: the paragraphs after the
\* header are read up to the next one that starts with "By "
has_segment_values(doc, para_idx) ==
    \/ doc[para_idx].vals
    \/ (para_idx < Len(doc) /\ Head(doc[para_idx + 1].text) \notin ByPieces)

\* base_market_name: the file name, " Market" added unless it ends with
\* "market" in any case
base_market_name(filename) ==
    IF lower(filename[Len(filename)]) = "market" THEN filename
    ELSE filename \o <<"Market">>

\* the clause of a kind with values: "By Product Type (...)" or
\* "By Application (...)"; the values themselves are left out
segment_clause(doc, kind, clause) ==
    IF /\ kind \in segments(doc)
       /\ segment_index(doc, kind) # 0
       /\ has_segment_values(doc, segment_index(doc, kind))
    THEN <<clause>>
    ELSE <<>>

\* the parts with the application clause put in front of the type clause
title_parts_application_first(doc, filename) ==
    base_market_name(filename)
      \o segment_clause(doc, "treatment", "By Application (...)")
      \o segment_clause(doc, "diagnostic", "By Product Type (...)")
      \o (IF "region" \in segments(doc) \/ Cardinality(segments(doc)) >= 2
          THEN <<"By Geography">> ELSE <<>>)
      \o <<SegRevPiece, ForecastPiece, YearPiece>>

\* title_parts: market name, type, application, geography, standard ending
title_parts(doc, filename) ==
    base_market_name(filename)
      \o segment_clause(doc, "diagnostic", "By Product Type (...)")
      \o segment_clause(doc, "treatment", "By Application (...)")
      \o (IF "region" \in segments(doc) \/ Cardinality(segments(doc)) >= 2
          THEN <<"By Geography">> ELSE <<>>)
      \o <<SegRevPiece, ForecastPiece, YearPiece>>

\* the title built from the segmentation sections.  No text of the
\* vocabulary holds "By Treatment Type", so the search for a detailed
\* segmented title that runs first finds nothing.
segmented_title(doc, filename) ==
    IF Cardinality(segments(doc)) >= 2
    THEN _clean_final_title(title_parts(doc, filename))
    ELSE <<>>

\* the text starts with a capital letter
starts_with_capital(t) == Head(t) \notin {"acme", "widget", "market"}

\* ^(.*?market.*?forecast.*?20dd.*?20dd): the end of the match, 0 for none
forecast_match_end(t) ==
    first_of({ y \in 1..Len(t) :
                 /\ t[y] = YearPiece
                 /\ \E m \in 1..y, f \in 1..y :
                        m < f /\ f < y /\ lower(t[m]) = "market" /\ t[f] = ForecastPiece })

\* the heuristic scan of one paragraph.  No text of the vocabulary holds
\* "global" (Priority 1); Priority 4 extracts what Priority 2 extracts,
\* under a stronger condition.
heuristic_title_of(t, filename) ==
    LET excluded == {"market", "the", "and", "or", "global"}
        kws == filename_keywords(filename, excluded)
        n == Cardinality(kws)
        min_keywords_needed == IF n > 2 THEN Max({2, Min({n, 3})}) ELSE n
        matching == matching_keywords(filename, excluded, t)
        has_market_keywords ==
            \E kw \in kws : piece_len(kw) > 3 /\ \E i \in 1..Len(t) : lower(t[i]) = kw
        by_segment == \E k \in 1..Len(SegmentKinds), j \in 1..Len(t) :
                          t[j] \in marker_pieces(SegmentKinds[k])
        up_to_market == SubSeq(t, 1, first_index(text_lower(t), "market"))
    IN IF text_len(t) < 20 /\ ~has_market_keywords THEN <<>>
       ELSE IF /\ has_market(t) /\ by_segment
               /\ matching >= min_keywords_needed
               /\ _year_range_present(t)
            THEN _clean_final_title(cut_at_year_range(t))
       ELSE IF /\ starts_with_capital(t) /\ matching >= min_keywords_needed
               /\ has_market(t) /\ text_len(t) < 400
               /\ forecast_match_end(t) # 0
            THEN _ensure_filename_start_and_year(
                     SubSeq(t, 1, forecast_match_end(t)), filename)
       ELSE IF /\ starts_with_capital(t) /\ matching >= min_keywords_needed
               /\ has_market(t) /\ text_len(t) < 400
               /\ word_count(up_to_market) >= 3
            THEN _ensure_filename_start_and_year(up_to_market, filename)
       ELSE IF /\ \E i \in 1..(Len(t) - 1) : t[i] = ForecastPiece /\ t[i + 1] = YearPiece
               /\ (matching >= min_keywords_needed \/ has_market(t))
               /\ has_market(SubSeq(t, 1, first_index(t, ForecastPiece)))
            THEN _ensure_filename_start_and_year(t, filename)
       ELSE <<>>

\* the heuristic scan: the first paragraph that gives a title
heuristic_title(doc, filename) ==
    LET i == first_of({ k \in 1..Len(doc) :
                          heuristic_title_of(doc[k].text, filename) # <<>> })
    IN IF i = 0 THEN <<>> ELSE heuristic_title_of(doc[i].text, filename)

\* by (application|product type|type|end-user|region|geography|segment)
has_segmentation(doc) ==
    \E k \in 1..Len(doc), n \in 1..Len(SegmentKinds) :
        \E j \in 1..Len(doc[k].text) : doc[k].text[j] \in marker_pieces(SegmentKinds[n])

\* the sentinel goes through the post-processing of every other title
last_resort_postprocessed(doc, filename) ==
    IF has_segmentation(doc)
    THEN _ensure_filename_start_and_year(base_market_name(filename), filename)
    ELSE _ensure_filename_start_and_year(<<TitleSentinel>>, filename)

\* the last resort and the final return
last_resort_title(doc, filename) ==
    IF has_segmentation(doc)
    THEN _ensure_filename_start_and_year(base_market_name(filename), filename)
    ELSE <<TitleSentinel>>

InitTitle ==
    /\ title_doc \in TitleDocs
    /\ title_tbl \in TitleTables
    /\ title_filename \in TitleFilenames
    /\ title_pc = "header_next"
    /\ title_result = <<>>
    /\ IdleToc /\ IdleSplit /\ IdleFast /\ IdleDesc /\ IdleMeth /\ IdleSeo /\ IdleBc /\ IdleRuns /\ IdleJobs /\ IdleUp /\ IdlePar /\ IdleJson

\* one strategy of the chain: it returns its title, or the next one runs
TitleStrategy(strategy, title, next) ==
    /\ title_pc = strategy
    /\ IF title # <<>>
       THEN title_result' = title /\ title_pc' = "done"
       ELSE title_pc' = next /\ UNCHANGED title_result
    /\ UNCHANGED <<title_doc, title_tbl, title_filename,
                   tocVars, splitVars, fastVars, descVars, methVars, seoVars, bcVars, runsVars, jobsVars, upVars, parVars, jsonVars>>

TitleHeaderNext ==
    TitleStrategy("header_next",
                  header_next_title(title_doc, title_filename), "inline_paragraph")

TitleInlineParagraph ==
    TitleStrategy("inline_paragraph",
                  inline_paragraph_title(title_doc, title_filename), "inline_cell")

TitleInlineCell ==
    TitleStrategy("inline_cell",
                  inline_cell_title(title_tbl, title_filename), "capture")

TitleCapture ==
    TitleStrategy("capture", capture_title(title_doc, title_filename), "table_label")

TitleTableLabel ==
    TitleStrategy("table_label",
                  table_label_title(title_tbl, title_filename), "filename_forecast")

TitleFilenameForecast ==
    TitleStrategy("filename_forecast",
                  filename_forecast_title(title_doc, title_filename), "segmented")

TitleSegmented ==
    TitleStrategy("segmented", segmented_title(title_doc, title_filename), "heuristic")

TitleHeuristic ==
    TitleStrategy("heuristic", heuristic_title(title_doc, title_filename), "last_resort")

TitleLastResort ==
    TitleStrategy("last_resort", last_resort_title(title_doc, title_filename), "done")

NextTitle ==
    \/ TitleHeaderNext \/ TitleInlineParagraph \/ TitleInlineCell
    \/ TitleCapture \/ TitleTableLabel \/ TitleFilenameForecast
    \/ TitleSegmented \/ TitleHeuristic \/ TitleLastResort

SpecTitle == InitTitle /\ [][NextTitle]_vars

TitleReturned == title_pc = "done"


(***************************************************************************)
(* Claims about extract_title.                                             *)
(***************************************************************************)
\* no strategy of the chain yields a candidate and no paragraph holds a
\* segmentation marker
NoTitleCandidate ==
    /\ header_next_title(title_doc, title_filename) = <<>>
    /\ inline_paragraph_title(title_doc, title_filename) = <<>>
    /\ inline_cell_title(title_tbl, title_filename) = <<>>
    /\ capture_title(title_doc, title_filename) = <<>>
    /\ table_label_title(title_tbl, title_filename) = <<>>
    /\ filename_forecast_title(title_doc, title_filename) = <<>>
    /\ segmented_title(title_doc, title_filename) = <<>>
    /\ heuristic_title(title_doc, title_filename) = <<>>
    /\ ~has_segmentation(title_doc)

\* C3: when no strategy of the title chain yields a candidate and the
\* document holds no segmentation marker, extract_title returns exactly the
\* sentinel "Title Not Available": no file name in front, no year range
\* behind.
C3_SentinelUnprocessed ==
    (TitleReturned /\ NoTitleCandidate) => title_result = <<TitleSentinel>>

\* extract_title has returned for a document with paragraphs that no
\* strategy takes a title from
C3_Witness ==
    /\ TitleReturned
    /\ NoTitleCandidate
    /\ Len(title_doc) = MaxTitleParas
    /\ \E k \in 1..Len(title_doc) : has_market(title_doc[k].text)
    /\ title_result = <<TitleSentinel>>

\* the paragraphs of the form "Report Title (Long-Form): <T>"
LabelledParas ==
    { k \in 1..Len(title_doc) :
        Head(title_doc[k].text) = LabelPiece /\ Len(title_doc[k].text) > 1 }

\* the T of such a paragraph
LabelledT(k) == Tail(title_doc[k].text)

\* T contains "market", at least `bys' "by" clauses and a year range
TitleLike(t, bys) ==
    has_market(t) /\ by_count(t) >= bys /\ _year_range_present(t)

FirstLabelledIsLongForm ==
    /\ \A k \in 1..Len(title_doc) : ~is_header_line(title_doc[k].text)
    /\ LabelledParas # {}
    /\ TitleLike(LabelledT(Min(LabelledParas)), 2)

MarkerParas ==
    { k \in 1..Len(title_doc) : chain_branch(title_doc[k].text) # 0 }

\* the segment kind of a marker paragraph
MarkerKind(k) == SegmentKinds[chain_branch(title_doc[k].text)]

\* the clause by which a title names a segment kind
ClauseOf(kind) ==
    CASE kind = "diagnostic" -> "By Product Type (...)"
      [] kind = "treatment" -> "By Application (...)"
      [] kind = "region" -> "By Geography"

\* no label line, no labelled paragraph, no table, no paragraph that starts
\* with the file name and mentions a forecast
NoExplicitTitle ==
    /\ \A k \in 1..Len(title_doc) : Head(title_doc[k].text) # LabelPiece
    /\ title_tbl = <<>>
    /\ \A k \in 1..Len(title_doc) :
           ~(starts_with(title_doc[k].text, title_filename) /\ has_forecast(title_doc[k].text))

\* the title ends with "Segment Revenue Estimation, Forecast, 2024-2030"
HasStandardEnding(t) ==
    /\ Len(t) >= 3
    /\ SubSeq(t, Len(t) - 2, Len(t)) = <<SegRevPiece, ForecastPiece, YearPiece>>

TwoSegmentKinds == NoExplicitTitle /\ Cardinality(segments(title_doc)) >= 2

\* the header of a kind that the title takes its values from is followed by
\* lines of values
KindHasValues(kind) ==
    /\ segment_index(title_doc, kind) # 0
    /\ has_segment_values(title_doc, segment_index(title_doc, kind))

MaxFaqItems == 2

\* JSON values as json.loads returns them; JMissing stands for an absent key
JMissing == [t |-> "missing"]

JNull == [t |-> "null"]

JNum == [t |-> "num"]

JStr(s) == [t |-> "str", s |-> s]

JList(items) == [t |-> "list", items |-> items]

JObj(name, acceptedAnswer, text) ==
    [t |-> "obj", name |-> name, acceptedAnswer |-> acceptedAnswer, text |-> text]

\* what an AttributeError or TypeError leaves in place of a value
Raised == [t |-> "raised"]

\* the strings of the questions and answers, as sequences of characters
FaqStrings == { <<>>, <<" ">>, <<" ", "Q", "&", "A", " ">> }

RECURSIVE lstrip(_)
lstrip(s) == IF s # <<>> /\ Head(s) = " " THEN lstrip(Tail(s)) ELSE s

RECURSIVE rstrip(_)
rstrip(s) ==
    IF s # <<>> /\ s[Len(s)] = " " THEN rstrip(SubSeq(s, 1, Len(s) - 1)) ELSE s

\* str.strip
strip(s) == rstrip(lstrip(s))

\* html.escape
RECURSIVE html_escape(_)
html_escape(s) ==
    IF s = <<>> THEN <<>>
    ELSE (CASE Head(s) = "&" -> <<"&", "a", "m", "p", ";">>
            [] Head(s) = "<" -> <<"&", "l", "t", ";">>
            [] Head(s) = ">" -> <<"&", "g", "t", ";">>
            [] OTHER -> <<Head(s)>>) \o html_escape(Tail(s))

\* v.get(key, default): a method of dict only
py_get(v, key, default) ==
    IF v.t # "obj" THEN Raised
    ELSE IF v[key].t = "missing" THEN default ELSE v[key]

\* v.strip(): a method of str only
py_strip(v) == IF v.t = "str" THEN JStr(strip(v.s)) ELSE Raised

\* `for item in v` raises TypeError on None, numbers and booleans
py_iterable(v) == v.t \in {"list", "obj", "str"}

\* the values `for item in v` visits: the entries of a list, the keys of a
\* dict, the characters of a string
py_iter(v) ==
    CASE v.t = "list" -> v.items
      [] v.t = "obj" ->
            (IF v.name.t = "missing" THEN <<>> ELSE <<JStr(<<"n", "a", "m", "e">>)>>)
            \o (IF v.acceptedAnswer.t = "missing" THEN <<>> ELSE <<JStr(<<"a">>)>>)
            \o (IF v.text.t = "missing" THEN <<>> ELSE <<JStr(<<"t", "e", "x", "t">>)>>)
      [] v.t = "str" -> [k \in 1..Len(v.s) |-> JStr(<<v.s[k]>>)]

\* question = item.get("name", "").strip()
faq_question(item) ==
    LET name == py_get(item, "name", JStr(<<>>))
    IN IF name.t = "raised" THEN Raised ELSE py_strip(name)

\* answer = item.get("acceptedAnswer", {}).get("text", "").strip()
faq_answer(item) ==
    LET accepted == py_get(item, "acceptedAnswer", JObj(JMissing, JMissing, JMissing))
        text == IF accepted.t = "raised" THEN Raised
                ELSE py_get(accepted, "text", JStr(<<>>))
    IN IF text.t = "raised" THEN Raised ELSE py_strip(text)

\* the paragraph appended for the q_count-th item
faq_paragraph(q_count, question, answer) ==
    [q_count |-> q_count, question |-> html_escape(question), answer |-> html_escape(answer)]

FaqAnswers ==
    { JMissing, JNull, JStr(<<"a">>) }
    \cup { JObj(JMissing, JMissing, text) :
              text \in {JMissing, JNull, JNum} \cup { JStr(s) : s \in FaqStrings } }

FaqItems ==
    { JStr(<<"x">>), JNum, JNull }
    \cup { JObj(name, answer, JMissing) :
              name \in {JMissing, JNull, JNum} \cup { JStr(s) : s \in FaqStrings },
              answer \in FaqAnswers }

MainEntities ==
    { JMissing, JNull, JNum, JStr(<<>>), JStr(<<"x">>),
      JObj(JMissing, JMissing, JMissing),
      JObj(JStr(<<"Q">>), JObj(JMissing, JMissing, JStr(<<"A">>)), JMissing) }
    \cup { JList(items) : items \in SeqsUpTo(FaqItems, MaxFaqItems) }

MethDocs ==
    { [block |-> "none", mainEntity |-> JMissing],
      [block |-> "invalid", mainEntity |-> JMissing] }
    \cup { [block |-> "json", mainEntity |-> m] : m \in MainEntities }

InitMeth ==
    /\ meth_doc \in MethDocs
    /\ meth_pc = "called"
    /\ meth_items = <<>>
    /\ meth_q_count = 0
    /\ meth_faqs = <<>>
    /\ meth_result = <<>>
    /\ IdleToc /\ IdleSplit /\ IdleFast /\ IdleDesc /\ IdleTitle /\ IdleSeo /\ IdleBc /\ IdleRuns /\ IdleJobs /\ IdleUp /\ IdlePar /\ IdleJson

\* faq_schema_str = extract_faq_schema(docx_path); if not faq_schema_str: return ""
MethExtractBlock ==
    /\ meth_pc = "called"
    /\ meth_pc' = IF meth_doc.block = "none" THEN "done" ELSE "parse"
    /\ UNCHANGED <<meth_doc, meth_items, meth_q_count, meth_faqs, meth_result,
                   tocVars, splitVars, fastVars, descVars, titleVars, seoVars, bcVars, runsVars, jobsVars, upVars, parVars, jsonVars>>

\* json.loads under `except json.JSONDecodeError: return ""`, then the
\* evaluation of faq_data.get("mainEntity", []) at the head of the for loop
MethParse ==
    /\ meth_pc = "parse"
    /\ IF meth_doc.block = "invalid"
       THEN /\ meth_pc' = "done"
            /\ UNCHANGED meth_items
       ELSE LET entity == IF meth_doc.mainEntity.t = "missing"
                          THEN JList(<<>>) ELSE meth_doc.mainEntity
            IN IF py_iterable(entity)
               THEN /\ meth_pc' = "loop"
                    /\ meth_items' = py_iter(entity)
               ELSE /\ meth_pc' = "raised"
                    /\ UNCHANGED meth_items
    /\ UNCHANGED <<meth_doc, meth_q_count, meth_faqs, meth_result,
                   tocVars, splitVars, fastVars, descVars, titleVars, seoVars, bcVars, runsVars, jobsVars, upVars, parVars, jsonVars>>

\* one turn of the for loop
MethItem ==
    /\ meth_pc = "loop"
    /\ meth_items # <<>>
    /\ LET item == Head(meth_items)
           question == faq_question(item)
           answer == IF question.t = "raised" THEN Raised ELSE faq_answer(item)
       IN /\ meth_q_count' = meth_q_count + 1
          /\ IF answer.t = "raised"
             THEN /\ meth_pc' = "raised"
                  /\ UNCHANGED <<meth_items, meth_faqs>>
             ELSE /\ meth_items' = Tail(meth_items)
                  /\ meth_faqs' =
                        IF question.s # <<>> /\ answer.s # <<>>
                        THEN Append(meth_faqs,
                                    faq_paragraph(meth_q_count + 1, question.s, answer.s))
                        ELSE meth_faqs
                  /\ UNCHANGED meth_pc
    /\ UNCHANGED <<meth_doc, meth_result,
                   tocVars, splitVars, fastVars, descVars, titleVars, seoVars, bcVars, runsVars, jobsVars, upVars, parVars, jsonVars>>

\* return "\n".join(faqs)
MethReturn ==
    /\ meth_pc = "loop"
    /\ meth_items = <<>>
    /\ meth_result' = meth_faqs
    /\ meth_pc' = "done"
    /\ UNCHANGED <<meth_doc, meth_items, meth_q_count, meth_faqs,
                   tocVars, splitVars, fastVars, descVars, titleVars, seoVars, bcVars, runsVars, jobsVars, upVars, parVars, jsonVars>>

NextMeth == MethExtractBlock \/ MethParse \/ MethItem \/ MethReturn

SpecMeth == InitMeth /\ [][NextMeth]_vars

\* the expected shape: mainEntity a list of objects whose name is a string
\* and whose acceptedAnswer is an object with a string text (absent keys
\* count as expected: the code gives them defaults)
WellShapedItem(item) ==
    /\ item.t = "obj"
    /\ item.name.t \in {"missing", "str"}
    /\ \/ item.acceptedAnswer.t = "missing"
       \/ /\ item.acceptedAnswer.t = "obj"
          /\ item.acceptedAnswer.text.t \in {"missing", "str"}

WellShaped(d) ==
    /\ d.block = "json"
    /\ \/ d.mainEntity.t = "missing"
       \/ /\ d.mainEntity.t = "list"
          /\ \A k \in 1..Len(d.mainEntity.items) : WellShapedItem(d.mainEntity.items[k])

\* C12: extract_methodology_from_faqschema returns the empty string and never
\* raises whenever the document has no FAQPage block, the block is not
\* parseable JSON, or the parsed JSON does not have the expected shape.
C12_MalformedFaqReturnsEmpty ==
    ~WellShaped(meth_doc) =>
        /\ meth_pc # "raised"
        /\ meth_pc = "done" => meth_result = <<>>

(***************************************************************************)
(* Strings.  The operators below work on TLA+ strings character by         *)
(* character, as the str methods and regular expressions of the code do.   *)
(***************************************************************************)
char_at(s, k) == SubSeq(s, k, k)

str_from(s, k) == SubSeq(s, k, Len(s))

\* s[k:].startswith(sub)
str_at(s, k, sub) == k + Len(sub) - 1 <= Len(s) /\ SubSeq(s, k, k + Len(sub) - 1) = sub

\* sub in s
str_in(sub, s) == \E k \in 1..(Len(s) + 1) : str_at(s, k, sub)

UpperCase == "ABCDEFGHIJKLMNOPQRSTUVWXYZ"

LowerCase == "abcdefghijklmnopqrstuvwxyz"

UpperChars == { char_at(UpperCase, k) : k \in 1..Len(UpperCase) }

lower_of ==
    [c \in UpperChars |->
        char_at(LowerCase, CHOOSE k \in 1..Len(UpperCase) : char_at(UpperCase, k) = c)]

lower_char(c) == IF c \in UpperChars THEN lower_of[c] ELSE c

\* str.lower
RECURSIVE str_lower(_)
str_lower(s) == IF s = "" THEN "" ELSE lower_char(char_at(s, 1)) \o str_lower(str_from(s, 2))

is_space(c) == c \in {" ", "\t", "\n"}

RECURSIVE str_lstrip(_)
str_lstrip(s) == IF s # "" /\ is_space(char_at(s, 1)) THEN str_lstrip(str_from(s, 2)) ELSE s

RECURSIVE str_rstrip(_)
str_rstrip(s) ==
    IF s # "" /\ is_space(char_at(s, Len(s))) THEN str_rstrip(SubSeq(s, 1, Len(s) - 1)) ELSE s

\* str.strip
str_strip(s) == str_rstrip(str_lstrip(s))

\* str.replace(old, new), old non-empty
RECURSIVE str_replace(_, _, _)
str_replace(s, old, new) ==
    IF s = "" THEN ""
    ELSE IF str_at(s, 1, old) THEN new \o str_replace(str_from(s, Len(old) + 1), old, new)
    ELSE char_at(s, 1) \o str_replace(str_from(s, 2), old, new)

\* re.sub(old, new, s, flags=re.I) for a pattern of letters
RECURSIVE str_replace_nocase(_, _, _)
str_replace_nocase(s, old, new) ==
    IF s = "" THEN ""
    ELSE IF Len(s) >= Len(old) /\ str_lower(SubSeq(s, 1, Len(old))) = str_lower(old)
    THEN new \o str_replace_nocase(str_from(s, Len(old) + 1), old, new)
    ELSE char_at(s, 1) \o str_replace_nocase(str_from(s, 2), old, new)

\* re.sub(r"\s+", " ", s)
RECURSIVE collapse_spaces(_)
collapse_spaces(s) ==
    IF s = "" THEN ""
    ELSE IF is_space(char_at(s, 1))
    THEN " " \o collapse_spaces(str_lstrip(s))
    ELSE char_at(s, 1) \o collapse_spaces(str_from(s, 2))

(***************************************************************************)
(* extract_seo_title.  doc.tables is a sequence of tables, a table a       *)
(* sequence of rows, a row the sequence of its cell texts.                 *)
(***************************************************************************)
MaxSeoTables == 2

MaxSeoRows == 2

\* os.path.basename
RECURSIVE py_basename(_)
py_basename(path) ==
    IF str_in("/", path) THEN py_basename(str_from(path, 2)) ELSE path

\* os.path.splitext(name)[0] for a name with at most one dot, not leading
RECURSIVE splitext_root(_)
splitext_root(name) ==
    IF name = "" \/ ~str_in(".", str_from(name, 2)) THEN name
    ELSE IF char_at(name, Len(name)) = "." THEN SubSeq(name, 1, Len(name) - 1)
    ELSE splitext_root(SubSeq(name, 1, Len(name) - 1))

normalize_label(txt) ==
    LET t1 == collapse_spaces(str_lower(str_strip(txt)))
        t2 == str_replace(t1, "forecast by", "forecast in")
        t3 == str_replace(t2, "forecasts in", "forecast in")
        t4 == str_replace(t3, "forecast (", "forecast in ")
    IN str_replace(t4, ")", "")

\* the condition under which a row's Details become the forecast
seo_label_matches(cell) ==
    LET attr_raw == str_strip(cell)
        attr == normalize_label(attr_raw)
        attr_lower == str_lower(attr_raw)
    IN \/ /\ str_in("revenue forecast", attr)
          /\ str_in(" 2030", attr) \/ str_in("forecast in", attr)
       \/ str_in("revenue forecast", attr_lower) /\ str_in("2030", attr_raw)
       \/ /\ str_in("market size forecast", attr_lower) \/ str_in("market size", attr_lower)
          /\ str_in("2030", attr_raw)

\* headers = [cell.text.strip().lower() for cell in table.rows[0].cells]
seo_headers(table) == [k \in 1..Len(table[1]) |-> str_lower(str_strip(table[1][k]))]

has_attribute_header(table) ==
    /\ table # <<>>
    /\ table[1] # <<>>
    /\ \E k \in 1..Len(table[1]) : seo_headers(table)[k] = "report attribute"
    /\ \E k \in 1..Len(table[1]) : seo_headers(table)[k] = "details"

\* list.index
py_index(list, v) == CHOOSE k \in 1..Len(list) : list[k] = v /\ \A j \in 1..(k - 1) : list[j] # v

attr_idx(table) == py_index(seo_headers(table), "report attribute")

details_idx(table) == py_index(seo_headers(table), "details")

\* re.sub(r"USD", "$", details, flags=re.I).strip()
seo_details(table, r) ==
    str_strip(str_replace_nocase(str_strip(table[r][details_idx(table)]), "USD", "$"))

\* the row loop of one table: the first matching row sets revenue_forecast
\* and ends the loop, whatever its Details hold
table_revenue_forecast(table) ==
    LET matching == { r \in 2..Len(table) : seo_label_matches(table[r][attr_idx(table)]) }
    IN IF matching = {} THEN ""
       ELSE seo_details(table, CHOOSE r \in matching : \A q \in matching : r <= q)

\* title_name = file_name.replace("_", " ")
title_name(docx_path) == str_replace(splitext_root(py_basename(docx_path)), "_", " ")

seo_format(name, revenue_forecast) == name \o " Size (" \o revenue_forecast \o ") 2030"

SeoLabels == { "Revenue Forecast in 2030", "Revenue Forecast by 2032", "Base Year" }

SeoValues == { "", "USD 5.1 Billion", " usd 9 Bn" }

SeoRows == { <<l, v>> : l \in SeoLabels, v \in SeoValues }

SeoTables ==
    { <<>> }
    \cup { << <<"Report Attribute", "Details">> >> \o rows : rows \in SeqsUpTo(SeoRows, MaxSeoRows) }
    \cup { << <<"DETAILS ", "report attribute">>, <<"USD 5.1 Billion", "Market Size Forecast (2030)">> >>,
           << <<"Segment", "Details">>, <<"Revenue Forecast in 2030", "USD 5.1 Billion">> >> }

SeoPaths == { "uploads/Acme_Widget_Market.docx", "Acme.docx" }

InitSeo ==
    /\ seo_tables \in SeqsUpTo(SeoTables, MaxSeoTables)
    /\ seo_path \in SeoPaths
    /\ seo_pc = "loop"
    /\ seo_i = 1
    /\ seo_revenue_forecast = ""
    /\ seo_result = ""
    /\ IdleToc /\ IdleSplit /\ IdleFast /\ IdleDesc /\ IdleTitle /\ IdleMeth /\ IdleBc /\ IdleRuns /\ IdleJobs /\ IdleUp /\ IdlePar /\ IdleJson

\* one turn of `for table in doc.tables`
SeoTable ==
    /\ seo_pc = "loop"
    /\ seo_i <= Len(seo_tables)
    /\ LET table == seo_tables[seo_i]
           found == IF has_attribute_header(table) THEN table_revenue_forecast(table) ELSE ""
       IN /\ seo_revenue_forecast' = found
          /\ IF found # ""
             THEN seo_pc' = "format" /\ UNCHANGED seo_i
             ELSE seo_i' = seo_i + 1 /\ UNCHANGED seo_pc
    /\ UNCHANGED <<seo_tables, seo_path, seo_result,
                   tocVars, splitVars, fastVars, descVars, titleVars, methVars, bcVars, runsVars, jobsVars, upVars, parVars, jsonVars>>

\* the two returns after the loop
SeoReturn ==
    /\ \/ seo_pc = "format"
       \/ seo_pc = "loop" /\ seo_i > Len(seo_tables)
    /\ seo_result' = IF seo_revenue_forecast # ""
                     THEN seo_format(title_name(seo_path), seo_revenue_forecast)
                     ELSE title_name(seo_path)
    /\ seo_pc' = "done"
    /\ UNCHANGED <<seo_tables, seo_path, seo_i, seo_revenue_forecast,
                   tocVars, splitVars, fastVars, descVars, titleVars, methVars, bcVars, runsVars, jobsVars, upVars, parVars, jsonVars>>

NextSeo == SeoTable \/ SeoReturn

SpecSeo == InitSeo /\ [][NextSeo]_vars

\* the data rows with a forecast label and a non-empty value, as <<table, row>>
ForecastRows ==
    { tr \in (1..Len(seo_tables)) \X (2..(MaxSeoRows + 1)) :
        /\ has_attribute_header(seo_tables[tr[1]])
        /\ tr[2] <= Len(seo_tables[tr[1]])
        /\ seo_label_matches(seo_tables[tr[1]][tr[2]][attr_idx(seo_tables[tr[1]])])
        /\ seo_details(seo_tables[tr[1]], tr[2]) # "" }

MaxCrumbs == 3

Digits == "0123456789"

AlnumChars ==
    UpperChars \cup { char_at(LowerCase, k) : k \in 1..Len(LowerCase) }
               \cup { char_at(Digits, k) : k \in 1..Len(Digits) }

\* \w
is_word_char(c) == c \in AlnumChars \/ c = "_"

\* the first position from k on that holds no whitespace
skip_spaces(s, k) ==
    CHOOSE j \in k..(Len(s) + 1) :
        /\ j > Len(s) \/ ~is_space(char_at(s, j))
        /\ \A i \in k..(j - 1) : is_space(char_at(s, i))

\* the first position from k on that holds c, 0 when there is none
find_char(s, k, c) ==
    LET found == { j \in k..Len(s) : char_at(s, j) = c }
    IN IF found = {} THEN 0 ELSE CHOOSE j \in found : \A i \in found : j <= i

\* r'"@type"\s*:\s*"<type_name>"' matches at k
type_marker_at(s, k, type_name) ==
    /\ str_at(s, k, "\"@type\"")
    /\ LET colon == skip_spaces(s, k + 7)
       IN /\ str_at(s, colon, ":")
          /\ str_at(s, skip_spaces(s, colon + 1), "\"" \o type_name \o "\"")

\* the position after the first "}" from start_idx on that brings the depth
\* back to 0, or the position after the end of the text
block_end(s, start_idx) ==
    LET opening == { j \in start_idx..Len(s) : char_at(s, j) = "{" }
        closing == { j \in start_idx..Len(s) : char_at(s, j) = "}" }
        balanced == { i \in closing :
                        Cardinality({ j \in opening : j < i })
                            = Cardinality({ j \in closing : j <= i }) }
    IN IF balanced = {} THEN Len(s) + 1
       ELSE (CHOOSE i \in balanced : \A j \in balanced : i <= j) + 1

_extract_json_block(text, type_name) ==
    LET markers == { k \in 1..Len(text) : type_marker_at(text, k, type_name) }
    IN IF markers = {} THEN ""
       ELSE LET m == CHOOSE k \in markers : \A j \in markers : k <= j
                braces == { k \in 1..(m - 1) : char_at(text, k) = "{" }
            IN IF braces = {} THEN ""
               ELSE LET start_idx == CHOOSE k \in braces : \A j \in braces : j <= k
                    IN str_strip(SubSeq(text, start_idx, block_end(text, start_idx) - 1))

\* re.sub(r'\b<word>\b', repl, s, flags=re.IGNORECASE), scanning from k
RECURSIVE sub_word(_, _, _, _)
sub_word(s, k, word, repl) ==
    IF k > Len(s) THEN ""
    ELSE IF /\ k + Len(word) - 1 <= Len(s)
            /\ str_lower(SubSeq(s, k, k + Len(word) - 1)) = word
            /\ k = 1 \/ ~is_word_char(char_at(s, k - 1))
            /\ k + Len(word) > Len(s) \/ ~is_word_char(char_at(s, k + Len(word)))
    THEN repl \o sub_word(s, k + Len(word), word, repl)
    ELSE char_at(s, k) \o sub_word(s, k + 1, word, repl)

\* re.sub(r'\([^)]*\)', ' ', s), scanning from k
RECURSIVE sub_parentheses(_, _)
sub_parentheses(s, k) ==
    IF k > Len(s) THEN ""
    ELSE IF char_at(s, k) = "(" /\ find_char(s, k + 1, ")") # 0
    THEN " " \o sub_parentheses(s, find_char(s, k + 1, ")") + 1)
    ELSE char_at(s, k) \o sub_parentheses(s, k + 1)

\* re.sub(r'\s*-\s*and\b', ' ', s, flags=re.IGNORECASE), scanning from k
RECURSIVE sub_hyphen_and(_, _)
sub_hyphen_and(s, k) ==
    IF k > Len(s) THEN ""
    ELSE LET h == skip_spaces(s, k)
             a == skip_spaces(s, h + 1)
         IN IF /\ str_at(s, h, "-")
               /\ a + 2 <= Len(s)
               /\ str_lower(SubSeq(s, a, a + 2)) = "and"
               /\ a + 3 > Len(s) \/ ~is_word_char(char_at(s, a + 3))
            THEN " " \o sub_hyphen_and(s, a + 3)
            ELSE char_at(s, k) \o sub_hyphen_and(s, k + 1)

\* re.sub(r'[^a-zA-Z0-9\s]', ' ', s)
RECURSIVE sub_special(_)
sub_special(s) ==
    IF s = "" THEN ""
    ELSE (IF char_at(s, 1) \in AlnumChars \/ is_space(char_at(s, 1)) THEN char_at(s, 1) ELSE " ")
         \o sub_special(str_from(s, 2))

extract_sku_code(docx_path) ==
    LET sku_code == splitext_root(py_basename(docx_path))
        p1 == sub_word(sku_code, 1, "and", " ")
        p2 == sub_word(p1, 1, "global", "")
        p3 == sub_parentheses(p2, 1)
        p4 == sub_hyphen_and(p3, 1)
        p5 == str_replace(p4, "-", " ")
        p6 == sub_special(p5)
        p7 == str_strip(collapse_spaces(p6))
    IN str_lower(p7)

\* str.endswith
ends_with(s, suffix) ==
    Len(s) >= Len(suffix) /\ SubSeq(s, Len(s) - Len(suffix) + 1, Len(s)) = suffix

\* the SKU code with " market" appended when missing and hyphens for spaces
breadcrumb_slug(docx_path) ==
    LET sku_code == extract_sku_code(docx_path)
    IN str_replace(IF ends_with(str_lower(sku_code), "market")
                   THEN sku_code ELSE sku_code \o " market", " ", "-")

ItemKey == "\"item\":"

ReportUrl == "https://www.strategicmarketresearch.com/market-report/"

\* the pattern '("item":\s*"https://www\.strategicmarketresearch\.com/market-report/)[^"]*(")'
\* matches at k: the position after its closing quote, 0 when it does not match
item_url_match(s, k) ==
    IF ~str_at(s, k, ItemKey) THEN 0
    ELSE LET q == skip_spaces(s, k + Len(ItemKey))
         IN IF ~str_at(s, q, "\"" \o ReportUrl) THEN 0
            ELSE LET close == find_char(s, q + 1 + Len(ReportUrl), "\"")
                 IN IF close = 0 THEN 0 ELSE close + 1

\* group(1) of the match at k
item_url_group1(s, k) ==
    SubSeq(s, k, skip_spaces(s, k + Len(ItemKey)) + Len(ReportUrl))

\* the first position from k on where the pattern matches, 0 when there is none
next_item_url(s, k) ==
    LET matches == { j \in k..Len(s) : item_url_match(s, j) # 0 }
    IN IF matches = {} THEN 0 ELSE CHOOSE j \in matches : \A i \in matches : j <= i

\* re.sub with count=1: only the first matching item is rewritten
replace_first_url(s, k, sku_code) ==
    LET m == next_item_url(s, k)
    IN IF m = 0 THEN SubSeq(s, k, Len(s))
       ELSE SubSeq(s, k, m - 1) \o item_url_group1(s, m) \o sku_code \o "\""
            \o SubSeq(s, item_url_match(s, m), Len(s))

\* re.sub(pattern, replace_url, breadcrumb_json), scanning from k
RECURSIVE replace_url(_, _, _)
replace_url(s, k, sku_code) ==
    LET m == next_item_url(s, k)
    IN IF m = 0 THEN SubSeq(s, k, Len(s))
       ELSE SubSeq(s, k, m - 1) \o item_url_group1(s, m) \o sku_code \o "\""
            \o replace_url(s, item_url_match(s, m), sku_code)

\* the URLs of the breadcrumb items of the documents
CrumbUrls ==
    { "https://www.strategicmarketresearch.com/",
      "https://www.strategicmarketresearch.com/report/healthcare",
      ReportUrl \o "old-name",
      "https://example.com/market-report/x" }

\* the JSON-LD text of a breadcrumb list, one ListItem per URL
RECURSIVE crumb_items(_, _, _)
crumb_items(urls, k, spaced) ==
    IF k > Len(urls) THEN ""
    ELSE (IF k > 1 THEN "," ELSE "")
         \o "{\"@type\":\"ListItem\",\"item\":" \o (IF spaced THEN " " ELSE "")
         \o "\"" \o urls[k] \o "\"}" \o crumb_items(urls, k + 1, spaced)

crumb_block(urls, spaced) ==
    "{\"@context\":\"https://schema.org\",\"@type\":" \o (IF spaced THEN " " ELSE "")
    \o "\"BreadcrumbList\",\"itemListElement\":[" \o crumb_items(urls, 1, spaced) \o "]}"

\* _get_text: the paragraphs joined by newlines; the spaced block stands
\* between a caption and an FAQPage block
crumb_text(urls, spaced) ==
    IF spaced
    THEN "Schema\n" \o crumb_block(urls, spaced) \o "\n{\"@type\": \"FAQPage\"}"
    ELSE crumb_block(urls, spaced)

SkuPaths ==
    { "Acme_Widget_Market.docx",
      "uploads/Global Oil and Gas (Upstream) Market.docx",
      "Salt-and-Sand.docx" }

InitBc ==
    /\ bc_urls \in SeqsUpTo(CrumbUrls, MaxCrumbs)
    /\ bc_spaced \in BOOLEAN
    /\ \E has_block \in BOOLEAN :
          /\ ~has_block => bc_urls = <<>> /\ ~bc_spaced
          /\ bc_text = IF has_block THEN crumb_text(bc_urls, bc_spaced) ELSE "No schema here"
    /\ bc_path \in SkuPaths
    /\ bc_pc = "called"
    /\ bc_json = ""
    /\ bc_sku = ""
    /\ bc_result = ""
    /\ IdleToc /\ IdleSplit /\ IdleFast /\ IdleDesc /\ IdleTitle /\ IdleMeth /\ IdleSeo /\ IdleRuns /\ IdleJobs /\ IdleUp /\ IdlePar /\ IdleJson

\* breadcrumb_json = _extract_json_block(text, "BreadcrumbList"); return "" without one
BcExtractBlock ==
    /\ bc_pc = "called"
    /\ bc_json' = _extract_json_block(bc_text, "BreadcrumbList")
    /\ bc_pc' = IF bc_json' = "" THEN "done" ELSE "sku"
    /\ UNCHANGED <<bc_urls, bc_spaced, bc_text, bc_path, bc_sku, bc_result,
                   tocVars, splitVars, fastVars, descVars, titleVars, methVars, seoVars, runsVars, jobsVars, upVars, parVars, jsonVars>>

\* the SKU code, " market" appended, spaces turned into hyphens
BcSkuCode ==
    /\ bc_pc = "sku"
    /\ bc_sku' = breadcrumb_slug(bc_path)
    /\ bc_pc' = "sub"
    /\ UNCHANGED <<bc_urls, bc_spaced, bc_text, bc_path, bc_json, bc_result,
                   tocVars, splitVars, fastVars, descVars, titleVars, methVars, seoVars, runsVars, jobsVars, upVars, parVars, jsonVars>>

\* modified_json = re.sub(pattern, replace_url, breadcrumb_json)
BcReplaceUrl ==
    /\ bc_pc = "sub"
    /\ bc_result' = replace_url(bc_json, 1, bc_sku)
    /\ bc_pc' = "done"
    /\ UNCHANGED <<bc_urls, bc_spaced, bc_text, bc_path, bc_json, bc_sku,
                   tocVars, splitVars, fastVars, descVars, titleVars, methVars, seoVars, runsVars, jobsVars, upVars, parVars, jsonVars>>

NextBc == BcExtractBlock \/ BcSkuCode \/ BcReplaceUrl

SpecBc == InitBc /\ [][NextBc]_vars

\* the document holds a BreadcrumbList block and the call has returned
BcReturnedBlock == bc_pc = "done" /\ bc_text # "No schema here"

\* the slug the file names of SkuPaths stand for
ExpectedSlug ==
    CASE bc_path = "Acme_Widget_Market.docx" -> "acme-widget-market"
      [] bc_path = "uploads/Global Oil and Gas (Upstream) Market.docx" -> "oil-gas-market"
      [] bc_path = "Salt-and-Sand.docx" -> "salt-sand-market"

MaxRuns == 2

\* the code points emoji_pattern matches, among the characters of RunTexts
EmojiChars == { "U+2605", "U+1F600" }

\* emoji_pattern.sub(r'', text or "")
remove_emojis(text) == SelectSeq(text, LAMBDA c : c \notin EmojiChars)

\* " ".join(parts)
RECURSIVE join_parts(_)
join_parts(parts) ==
    IF parts = <<>> THEN <<>>
    ELSE IF Len(parts) = 1 THEN parts[1]
    ELSE parts[1] \o <<" ">> \o join_parts(Tail(parts))

\* the part appended for one run, <<>> for a run that is skipped; with_links
\* tells runs_to_html_with_links from runs_to_html
run_part(run, with_links) ==
    LET txt == remove_emojis(strip(run.text))
    IN IF txt = <<>> THEN <<>>
       ELSE IF with_links /\ run.link = "target" THEN <<"<a href=\"link\">">> \o txt \o <<"</a>">>
       ELSE IF with_links /\ run.link = "broken" THEN txt
       ELSE IF run.bold /\ run.italic THEN <<"<b>", "<i>">> \o txt \o <<"</i>", "</b>">>
       ELSE IF run.bold THEN <<"<b>">> \o txt \o <<"</b>">>
       ELSE IF run.italic THEN <<"<i>">> \o txt \o <<"</i>">>
       ELSE txt

runs_to_html(runs, with_links) ==
    LET parts == SelectSeq([k \in 1..Len(runs) |-> run_part(runs[k], with_links)],
                           LAMBDA p : p # <<>>)
    IN strip(join_parts(parts))

RunTexts ==
    { <<>>, <<" ">>, <<"M", "a", "r">>, <<"k", "e", "t", " ">>,
      <<"a", " ", " ", "b">>, <<"U+2605", " ", "x">> }

Runs ==
    [text : RunTexts, bold : BOOLEAN, italic : BOOLEAN, link : {"none", "target", "broken"}]

PlainRun(text) == [text |-> text, bold |-> FALSE, italic |-> FALSE, link |-> "none"]

InitRuns ==
    /\ runs_in \in SeqsUpTo(Runs, MaxRuns)
    /\ runs_with_links \in BOOLEAN
    /\ runs_pc = "called"
    /\ runs_out = <<>>
    /\ runs_again = <<>>
    /\ IdleToc /\ IdleSplit /\ IdleFast /\ IdleDesc /\ IdleTitle /\ IdleMeth /\ IdleSeo /\ IdleBc /\ IdleJobs /\ IdleUp /\ IdlePar /\ IdleJson

\* the call on the runs of a paragraph
RunsFormat ==
    /\ runs_pc = "called"
    /\ runs_out' = runs_to_html(runs_in, runs_with_links)
    /\ runs_pc' = "formatted"
    /\ UNCHANGED <<runs_in, runs_with_links, runs_again,
                   tocVars, splitVars, fastVars, descVars, titleVars, methVars, seoVars, bcVars, jobsVars, upVars, parVars, jsonVars>>

\* the call on one plain run that holds the text returned by the first call
RunsFormatAgain ==
    /\ runs_pc = "formatted"
    /\ runs_again' = runs_to_html(<<PlainRun(runs_out)>>, runs_with_links)
    /\ runs_pc' = "reformatted"
    /\ UNCHANGED <<runs_in, runs_with_links, runs_out,
                   tocVars, splitVars, fastVars, descVars, titleVars, methVars, seoVars, bcVars, jobsVars, upVars, parVars, jsonVars>>

NextRuns == RunsFormat \/ RunsFormatAgain

SpecRuns == InitRuns /\ [][NextRuns]_vars

\* all runs are plain and hold no emoji
PlainEmojiFree ==
    \A k \in 1..Len(runs_in) :
        /\ ~runs_in[k].bold /\ ~runs_in[k].italic /\ runs_in[k].link = "none"
        /\ \A j \in 1..Len(runs_in[k].text) : runs_in[k].text[j] \notin EmojiChars

\* the run texts in order, nothing between them
RECURSIVE RunsText(_)
RunsText(runs) == IF runs = <<>> THEN <<>> ELSE Head(runs).text \o RunsText(Tail(runs))

\* re.sub(r"\s+", " ", s.strip()) on a sequence of characters
RECURSIVE CollapseSpaces(_)
CollapseSpaces(s) ==
    IF s = <<>> THEN <<>>
    ELSE IF Head(s) = " " THEN <<" ">> \o CollapseSpaces(lstrip(s))
    ELSE <<Head(s)>> \o CollapseSpaces(Tail(s))

NormalizedText(runs) == CollapseSpaces(strip(RunsText(runs)))

\* C15: for plain, emoji-free runs the inline formatter returns exactly the
\* normalized text of the input (the run texts in order with whitespace
\* normalized, nothing inserted between runs), and formatting its own output
\* again returns the same text.
C15_PlainRunsNormalizedText ==
    PlainEmojiFree =>
        /\ runs_pc \in {"formatted", "reformatted"} => runs_out = NormalizedText(runs_in)
        /\ runs_pc = "reformatted" => runs_again = runs_out

(***************************************************************************)
(* The job endpoints of converter/views.py: upload_files, start_convert    *)
(* with its worker thread, reset_job and progress.  JOBS is the in-memory  *)
(* tracker, JobRecord the database table, converter_jobs the list each     *)
(* session keeps of the jobs it registered.  The requests are served by    *)
(* threads of their own, so the statements of a worker interleave with     *)
(* the requests and with the other workers.                                *)
(***************************************************************************)
MaxJobs == 1

\* the .docx files one job folder holds at most
MaxDocx == 2

\* the _convert_worker threads start_convert creates in one run
MaxThreads == 2

JobIds == 1..MaxJobs

Threads == 1..MaxThreads

\* the authenticated users, one session each
Users == {"owner", "other"}

NoJob == [tracked |-> FALSE, progress |-> 0, done |-> FALSE, cancelled |-> FALSE]

NoRecord == [exists |-> FALSE, progress |-> 0, status |-> "none"]

NoDir == [exists |-> FALSE, docx |-> 0]

NoThread == [job |-> 0, pc |-> "idle", i |-> 0, total |-> 0]

NoReset == [user |-> "none", job |-> 0]

NoResponse == [user |-> "none", job |-> 0, authorized |-> FALSE, tracked |-> FALSE,
               status |-> 0, progress |-> 0, done |-> FALSE]

\* _job_is_authorized
_job_is_authorized(user, job_id) == job_id \in jobs_session[user]

\* the body and status progress() answers with
progress_response(user, job_id) ==
    LET job_data == JOBS[job_id]
        job_record == job_records[job_id]
    IN IF ~job_data.tracked \/ ~_job_is_authorized(user, job_id)
       THEN IF job_record.exists
            THEN [status |-> 409, progress |-> job_record.progress,
                  done |-> (job_record.status = "completed")]
            ELSE [status |-> 404, progress |-> 0, done |-> FALSE]
       ELSE [status |-> 200, progress |-> job_data.progress, done |-> job_data.done]

\* _cleanup_old_jobs: the folders of the jobs in old, which are not in JOBS
\* and older than one hour, are removed
_cleanup_old_jobs(old) == [j \in JobIds |-> IF j \in old THEN NoDir ELSE jobs_dir[j]]

\* the folders _cleanup_old_jobs may find old: those of no job in JOBS
OldFolders == { j \in JobIds : jobs_dir[j].exists /\ ~JOBS[j].tracked }

\* _cleanup_uploaded_files: the Word files leave the folder, if there is one
_cleanup_uploaded_files(job_id) == [jobs_dir EXCEPT ![job_id].docx = 0]

\* file_progress = 5 + int((i + 1) / total_files * 80), for the file at index i
file_progress(i, total_files) == 5 + (((i + 1) * 80) \div total_files)

\* the stages at which _convert_worker has returned or was left by an exception
WorkerEnded == {"returned", "cancelled", "completed", "db_cleaned", "error_cleanup", "failed", "crashed"}

InitJobs ==
    /\ JOBS = [j \in JobIds |-> NoJob]
    /\ job_records = [j \in JobIds |-> NoRecord]
    /\ jobs_session = [u \in Users |-> {}]
    /\ jobs_issued = {}
    /\ jobs_dir = [j \in JobIds |-> NoDir]
    /\ jobs_worker = [t \in Threads |-> NoThread]
    /\ jobs_reset = NoReset
    /\ jobs_response = NoResponse
    /\ jobs_pc = "serving"
    /\ IdleToc /\ IdleSplit /\ IdleFast /\ IdleDesc /\ IdleTitle /\ IdleMeth /\ IdleSeo /\ IdleBc /\ IdleRuns /\ IdleUp /\ IdlePar /\ IdleJson

JobsUnchangedOthers ==
    UNCHANGED <<jobs_pc, tocVars, splitVars, fastVars, descVars, titleVars, methVars,
                seoVars, bcVars, runsVars, upVars, parVars, jsonVars>>

\* upload_files without jobId: old folders are cleaned up, then a new uuid4
\* job id gets its folder, its JobRecord and its registration in the session;
\* the request is left with 400 when it holds no file or a file of an
\* unsupported type, before a file is written and JOBS gets its entry
JobsUpload(user, files_ok) ==
    /\ jobs_pc = "serving"
    /\ \E job_id \in JobIds \ jobs_issued, old \in SUBSET OldFolders, docx \in 0..MaxDocx :
          /\ files_ok \/ docx = 0
          /\ jobs_issued' = jobs_issued \cup {job_id}
          /\ jobs_dir' = [_cleanup_old_jobs(old) EXCEPT ![job_id] = [exists |-> TRUE, docx |-> docx]]
          /\ job_records' = [job_records EXCEPT
                                ![job_id] = [exists |-> TRUE, progress |-> 0, status |-> "pending"]]
          /\ jobs_session' = [jobs_session EXCEPT ![user] = @ \cup {job_id}]
          /\ JOBS' = IF files_ok
                     THEN [JOBS EXCEPT ![job_id] = [tracked |-> TRUE, progress |-> 0,
                                                    done |-> FALSE, cancelled |-> FALSE]]
                     ELSE JOBS
    /\ UNCHANGED <<jobs_worker, jobs_reset>>
    /\ jobs_response' = NoResponse
    /\ JobsUnchangedOthers

\* upload_files with the jobId of a job in JOBS: 404 for a job the session
\* did not register; else the files are added to the folder of the job and
\* the JOBS entry is kept
JobsUploadAppend(user, job_id, files_ok) ==
    /\ jobs_pc = "serving"
    /\ JOBS[job_id].tracked
    /\ _job_is_authorized(user, job_id)
    /\ \E old \in SUBSET OldFolders, docx \in 0..MaxDocx :
          /\ files_ok \/ docx = 0
          /\ jobs_dir' = [_cleanup_old_jobs(old) EXCEPT
                             ![job_id] = [exists |-> TRUE,
                                          docx |-> IF jobs_dir[job_id].exists
                                                   THEN Min({MaxDocx, jobs_dir[job_id].docx + docx})
                                                   ELSE docx]]
    /\ UNCHANGED <<JOBS, job_records, jobs_session, jobs_issued, jobs_worker, jobs_reset>>
    /\ jobs_response' = NoResponse
    /\ JobsUnchangedOthers

\* start_convert: 400 for a job that is not in JOBS, 404 for one the session
\* did not register; else the JobRecord turns "converting" and a new worker
\* thread starts, whether or not the job has been started before
JobsStartConvert(user, job_id) ==
    /\ jobs_pc = "serving"
    /\ JOBS[job_id].tracked
    /\ _job_is_authorized(user, job_id)
    /\ \E t \in Threads :
          /\ jobs_worker[t].pc = "idle"
          /\ \A s \in Threads : s < t => jobs_worker[s].pc # "idle"
          /\ jobs_worker' = [jobs_worker EXCEPT ![t] = [NoThread EXCEPT !.job = job_id, !.pc = "start"]]
    /\ job_records' = IF job_records[job_id].exists
                      THEN [job_records EXCEPT ![job_id].status = "converting",
                                               ![job_id].progress = 5]
                      ELSE job_records
    /\ UNCHANGED <<JOBS, jobs_session, jobs_issued, jobs_dir, jobs_reset>>
    /\ jobs_response' = NoResponse
    /\ JobsUnchangedOthers

\* the worker t leaves its stage for the stage pc
WorkerGoto(t, pc) == jobs_worker' = [jobs_worker EXCEPT ![t].pc = pc]

\* the worker t ends at the stage pc
WorkerEnd(t, pc) == jobs_worker' = [jobs_worker EXCEPT ![t].pc = pc, ![t].i = 0, ![t].total = 0]

\* _convert_worker: JOBS[job_id]["progress"] = 5; for a job deleted from
\* JOBS the subscript raises KeyError, which the except clause catches
JobsWorkerInit(t) ==
    LET job_id == jobs_worker[t].job
    IN /\ jobs_worker[t].pc = "start"
       /\ IF JOBS[job_id].tracked
          THEN /\ JOBS' = [JOBS EXCEPT ![job_id].progress = 5]
               /\ WorkerGoto(t, "list")
          ELSE /\ WorkerGoto(t, "except")
               /\ UNCHANGED JOBS
       /\ UNCHANGED <<job_records, jobs_session, jobs_issued, jobs_dir, jobs_reset>>
       /\ jobs_response' = NoResponse
       /\ JobsUnchangedOthers

\* _convert_worker: os.listdir(folder), which raises for a deleted folder;
\* without a .docx file the worker goes on to report the job done
JobsWorkerList(t) ==
    LET job_id == jobs_worker[t].job
        total_files == jobs_dir[job_id].docx
    IN /\ jobs_worker[t].pc = "list"
       /\ jobs_worker' =
             [jobs_worker EXCEPT
                 ![t].total = IF jobs_dir[job_id].exists THEN total_files ELSE 0,
                 ![t].pc = IF ~jobs_dir[job_id].exists THEN "except"
                           ELSE IF total_files = 0 THEN "progress_100"
                           ELSE "check_cancelled"]
       /\ UNCHANGED <<JOBS, job_records, jobs_session, jobs_issued, jobs_dir, jobs_reset>>
       /\ jobs_response' = NoResponse
       /\ JobsUnchangedOthers

\* _convert_worker: if JOBS.get(job_id, {}).get("cancelled"), at the head of
\* the loop over the files and once more behind the loop
JobsWorkerCheckCancelled(t) ==
    LET job_id == jobs_worker[t].job
    IN /\ jobs_worker[t].pc = "check_cancelled"
       /\ WorkerGoto(t, IF JOBS[job_id].tracked /\ JOBS[job_id].cancelled THEN "mark_cancelled"
                        ELSE IF jobs_worker[t].i < jobs_worker[t].total THEN "extract"
                        ELSE "excel")
       /\ UNCHANGED <<JOBS, job_records, jobs_session, jobs_issued, jobs_dir, jobs_reset>>
       /\ jobs_response' = NoResponse
       /\ JobsUnchangedOthers

\* _convert_worker: a cancelled job gets its error and is done, the Word
\* files are cleaned up and the worker returns
JobsWorkerMarkCancelled(t) ==
    LET job_id == jobs_worker[t].job
    IN /\ jobs_worker[t].pc = "mark_cancelled"
       /\ IF JOBS[job_id].tracked
          THEN /\ JOBS' = [JOBS EXCEPT ![job_id].done = TRUE]
               /\ jobs_dir' = _cleanup_uploaded_files(job_id)
               /\ WorkerEnd(t, "cancelled")
          ELSE /\ WorkerGoto(t, "except")
               /\ UNCHANGED <<JOBS, jobs_dir>>
       /\ UNCHANGED <<job_records, jobs_session, jobs_issued, jobs_reset>>
       /\ jobs_response' = NoResponse
       /\ JobsUnchangedOthers

\* _convert_worker: the extractors read the file, which raises when the
\* folder is gone or the file is no readable Word document, and
\* file_progress is compared with the stored progress
JobsWorkerExtract(t, readable) ==
    LET job_id == jobs_worker[t].job
        w == jobs_worker[t]
    IN /\ w.pc = "extract"
       /\ IF ~readable \/ ~jobs_dir[job_id].exists \/ ~JOBS[job_id].tracked
          THEN WorkerGoto(t, "except")
          ELSE IF file_progress(w.i, w.total) > JOBS[job_id].progress
          THEN WorkerGoto(t, "assign_progress")
          ELSE jobs_worker' = [jobs_worker EXCEPT ![t].i = w.i + 1, ![t].pc = "check_cancelled"]
       /\ UNCHANGED <<JOBS, job_records, jobs_session, jobs_issued, jobs_dir, jobs_reset>>
       /\ jobs_response' = NoResponse
       /\ JobsUnchangedOthers

\* _convert_worker: JOBS[job_id]["progress"] = file_progress
JobsWorkerProgress(t) ==
    LET job_id == jobs_worker[t].job
        w == jobs_worker[t]
    IN /\ w.pc = "assign_progress"
       /\ IF JOBS[job_id].tracked
          THEN /\ JOBS' = [JOBS EXCEPT ![job_id].progress = file_progress(w.i, w.total)]
               /\ jobs_worker' = [jobs_worker EXCEPT ![t].i = w.i + 1, ![t].pc = "check_cancelled"]
          ELSE /\ WorkerGoto(t, "except")
               /\ UNCHANGED JOBS
       /\ UNCHANGED <<job_records, jobs_session, jobs_issued, jobs_dir, jobs_reset>>
       /\ jobs_response' = NoResponse
       /\ JobsUnchangedOthers

\* _convert_worker: the status message "Creating Excel file..." and the
\* workbook written into the folder of the job
JobsWorkerExcel(t) ==
    LET job_id == jobs_worker[t].job
    IN /\ jobs_worker[t].pc = "excel"
       /\ WorkerGoto(t, IF JOBS[job_id].tracked /\ jobs_dir[job_id].exists
                        THEN "progress_100" ELSE "except")
       /\ UNCHANGED <<JOBS, job_records, jobs_session, jobs_issued, jobs_dir, jobs_reset>>
       /\ jobs_response' = NoResponse
       /\ JobsUnchangedOthers

\* _convert_worker: JOBS[job_id]["progress"] = 100
JobsWorkerComplete(t) ==
    LET job_id == jobs_worker[t].job
    IN /\ jobs_worker[t].pc = "progress_100"
       /\ IF JOBS[job_id].tracked
          THEN /\ JOBS' = [JOBS EXCEPT ![job_id].progress = 100]
               /\ WorkerGoto(t, "done")
          ELSE /\ WorkerGoto(t, "except")
               /\ UNCHANGED JOBS
       /\ UNCHANGED <<job_records, jobs_session, jobs_issued, jobs_dir, jobs_reset>>
       /\ jobs_response' = NoResponse
       /\ JobsUnchangedOthers

\* _convert_worker: JOBS[job_id]["done"] = True; the worker that found no
\* file returns here, the other one goes on to the JobRecord
JobsWorkerDone(t) ==
    LET job_id == jobs_worker[t].job
    IN /\ jobs_worker[t].pc = "done"
       /\ IF JOBS[job_id].tracked
          THEN /\ JOBS' = [JOBS EXCEPT ![job_id].done = TRUE]
               /\ IF jobs_worker[t].total = 0
                  THEN WorkerEnd(t, "returned")
                  ELSE WorkerGoto(t, "record")
          ELSE /\ WorkerGoto(t, "except")
               /\ UNCHANGED JOBS
       /\ UNCHANGED <<job_records, jobs_session, jobs_issued, jobs_dir, jobs_reset>>
       /\ jobs_response' = NoResponse
       /\ JobsUnchangedOthers

\* _convert_worker: the JobRecord is completed, the Word files are cleaned
\* up and the two cleanup threads are started
JobsWorkerRecord(t) ==
    LET job_id == jobs_worker[t].job
    IN /\ jobs_worker[t].pc = "record"
       /\ job_records' = IF job_records[job_id].exists
                         THEN [job_records EXCEPT ![job_id].status = "completed",
                                                  ![job_id].progress = 100]
                         ELSE job_records
       /\ jobs_dir' = _cleanup_uploaded_files(job_id)
       /\ WorkerEnd(t, "completed")
       /\ UNCHANGED <<JOBS, jobs_session, jobs_issued, jobs_reset>>
       /\ jobs_response' = NoResponse
       /\ JobsUnchangedOthers

\* _convert_worker, except Exception: JOBS[job_id]["error"] = str(e) and
\* JOBS[job_id]["done"] = True; for a job deleted from JOBS the subscript
\* raises KeyError inside the handler and the thread dies of it
JobsWorkerExcept(t) ==
    LET job_id == jobs_worker[t].job
    IN /\ jobs_worker[t].pc = "except"
       /\ IF JOBS[job_id].tracked
          THEN /\ JOBS' = [JOBS EXCEPT ![job_id].done = TRUE]
               /\ jobs_dir' = _cleanup_uploaded_files(job_id)
               /\ WorkerEnd(t, "error_cleanup")
          ELSE /\ WorkerEnd(t, "crashed")
               /\ UNCHANGED <<JOBS, jobs_dir>>
       /\ UNCHANGED <<job_records, jobs_session, jobs_issued, jobs_reset>>
       /\ jobs_response' = NoResponse
       /\ JobsUnchangedOthers

\* cleanup_job: five minutes after the error the job leaves JOBS
JobsCleanupError(t) ==
    /\ jobs_worker[t].pc = "error_cleanup"
    /\ JOBS' = [JOBS EXCEPT ![jobs_worker[t].job] = NoJob]
    /\ WorkerGoto(t, "failed")
    /\ UNCHANGED <<job_records, jobs_session, jobs_issued, jobs_dir, jobs_reset>>
    /\ jobs_response' = NoResponse
    /\ JobsUnchangedOthers

\* cleanup_job_db: the thread that deletes the JobRecord of a completed job
JobsCleanupDb(t) ==
    /\ jobs_worker[t].pc = "completed"
    /\ job_records' = [job_records EXCEPT ![jobs_worker[t].job] = NoRecord]
    /\ WorkerGoto(t, "db_cleaned")
    /\ UNCHANGED <<JOBS, jobs_session, jobs_issued, jobs_dir, jobs_reset>>
    /\ jobs_response' = NoResponse
    /\ JobsUnchangedOthers

\* cleanup_job_memory: five minutes later the job leaves JOBS
JobsCleanupMemory(t) ==
    /\ jobs_worker[t].pc = "db_cleaned"
    /\ JOBS' = [JOBS EXCEPT ![jobs_worker[t].job] = NoJob]
    /\ WorkerGoto(t, "returned")
    /\ UNCHANGED <<job_records, jobs_session, jobs_issued, jobs_dir, jobs_reset>>
    /\ jobs_response' = NoResponse
    /\ JobsUnchangedOthers

\* reset_job with a jobId the session registered, up to
\* JOBS[job_id]["cancelled"] = True: the database rows of the job are
\* deleted and a job in JOBS is marked cancelled
JobsResetJob(user, job_id) ==
    /\ jobs_pc = "serving"
    /\ jobs_reset = NoReset
    /\ _job_is_authorized(user, job_id)
    /\ job_records' = [job_records EXCEPT ![job_id] = NoRecord]
    /\ IF JOBS[job_id].tracked
       THEN /\ JOBS' = [JOBS EXCEPT ![job_id].cancelled = TRUE]
            /\ jobs_reset' = [user |-> user, job |-> job_id]
            /\ UNCHANGED jobs_session
       ELSE /\ jobs_session' = [jobs_session EXCEPT ![user] = @ \ {job_id}]
            /\ UNCHANGED <<JOBS, jobs_reset>>
    /\ UNCHANGED <<jobs_issued, jobs_dir, jobs_worker>>
    /\ jobs_response' = NoResponse
    /\ JobsUnchangedOthers

\* reset_job, from _delete_job_folder on: the folder and the JOBS entry of
\* the job are deleted and the session forgets the job
JobsResetDelete ==
    /\ jobs_reset # NoReset
    /\ jobs_dir' = [jobs_dir EXCEPT ![jobs_reset.job] = NoDir]
    /\ JOBS' = [JOBS EXCEPT ![jobs_reset.job] = NoJob]
    /\ jobs_session' = [jobs_session EXCEPT ![jobs_reset.user] = @ \ {jobs_reset.job}]
    /\ jobs_reset' = NoReset
    /\ UNCHANGED <<job_records, jobs_issued, jobs_worker>>
    /\ jobs_response' = NoResponse
    /\ JobsUnchangedOthers

\* reset_job without jobId: every job in JOBS is cancelled and leaves JOBS
\* with its folder, the session forgets its jobs
JobsResetAll(user) ==
    /\ jobs_pc = "serving"
    /\ jobs_issued # {}
    /\ JOBS' = [j \in JobIds |-> NoJob]
    /\ jobs_dir' = [j \in JobIds |-> IF JOBS[j].tracked THEN NoDir ELSE jobs_dir[j]]
    /\ jobs_session' = [jobs_session EXCEPT ![user] = {}]
    /\ UNCHANGED <<job_records, jobs_issued, jobs_worker, jobs_reset>>
    /\ jobs_response' = NoResponse
    /\ JobsUnchangedOthers

\* progress with the jobId of a job some upload has created
JobsProgress(user, job_id) ==
    /\ jobs_pc = "serving"
    /\ job_id \in jobs_issued
    /\ jobs_response' =
          [user |-> user, job |-> job_id,
           authorized |-> _job_is_authorized(user, job_id),
           tracked |-> JOBS[job_id].tracked,
           status |-> progress_response(user, job_id).status,
           progress |-> progress_response(user, job_id).progress,
           done |-> progress_response(user, job_id).done]
    /\ UNCHANGED <<JOBS, job_records, jobs_session, jobs_issued, jobs_dir, jobs_worker, jobs_reset>>
    /\ JobsUnchangedOthers

NextJobs ==
    \/ \E user \in Users, files_ok \in BOOLEAN : JobsUpload(user, files_ok)
    \/ \E user \in Users, job_id \in JobIds, files_ok \in BOOLEAN : JobsUploadAppend(user, job_id, files_ok)
    \/ \E user \in Users, job_id \in JobIds : JobsStartConvert(user, job_id)
    \/ \E t \in Threads : JobsWorkerInit(t)
    \/ \E t \in Threads : JobsWorkerList(t)
    \/ \E t \in Threads : JobsWorkerCheckCancelled(t)
    \/ \E t \in Threads : JobsWorkerMarkCancelled(t)
    \/ \E t \in Threads, readable \in BOOLEAN : JobsWorkerExtract(t, readable)
    \/ \E t \in Threads : JobsWorkerProgress(t)
    \/ \E t \in Threads : JobsWorkerExcel(t)
    \/ \E t \in Threads : JobsWorkerComplete(t)
    \/ \E t \in Threads : JobsWorkerDone(t)
    \/ \E t \in Threads : JobsWorkerRecord(t)
    \/ \E t \in Threads : JobsWorkerExcept(t)
    \/ \E t \in Threads : JobsCleanupError(t)
    \/ \E t \in Threads : JobsCleanupDb(t)
    \/ \E t \in Threads : JobsCleanupMemory(t)
    \/ \E user \in Users, job_id \in JobIds : JobsResetJob(user, job_id)
    \/ JobsResetDelete
    \/ \E user \in Users : JobsResetAll(user)
    \/ \E user \in Users, job_id \in JobIds : JobsProgress(user, job_id)

SpecJobs == InitJobs /\ [][NextJobs]_vars

\* C16: the progress endpoint answers 404, and returns no progress or
\* completion data, to an authenticated user whose session did not register
\* the requested job, even while that job exists and is tracked for its owner.
C16_UnregisteredProgressIs404 ==
    jobs_response.user \in Users /\ ~jobs_response.authorized =>
        /\ jobs_response.status = 404
        /\ jobs_response.progress = 0
        /\ ~jobs_response.done

(***************************************************************************)
(* upload_files and _sanitize_filename (converter/views.py).  One request  *)
(* uploads a list of files into the directory of its job; the directory    *)
(* may hold the files of earlier requests of the same job.                 *)
(***************************************************************************)
MaxFiles == 2

ALLOWED_DOCUMENT_EXTENSIONS == {".doc", ".docx", ".rtf", ".odt"}

\* str.rfind(c) + 1: the last position that holds c, 0 when there is none
rfind_char(s, c) ==
    LET found == { k \in 1..Len(s) : char_at(s, k) = c }
    IN IF found = {} THEN 0 ELSE CHOOSE k \in found : \A j \in found : j <= k

\* PurePath.name for a path written with "/"
path_name(s) == SubSeq(s, rfind_char(s, "/") + 1, Len(s))

\* PurePath.suffix: from the last dot of the name, unless the dot is the
\* first or the last character of the name
path_suffix(s) ==
    LET name == path_name(s)
        dot == rfind_char(name, ".")
    IN IF 1 < dot /\ dot < Len(name) THEN SubSeq(name, dot, Len(name)) ELSE ""

\* PurePath.stem
path_stem(s) ==
    LET name == path_name(s)
        dot == rfind_char(name, ".")
    IN IF 1 < dot /\ dot < Len(name) THEN SubSeq(name, 1, dot - 1) ELSE name

\* re.sub(r"(?u)[^-\w.]", "", s)
RECURSIVE keep_filename_chars(_)
keep_filename_chars(s) ==
    IF s = "" THEN ""
    ELSE (IF is_word_char(char_at(s, 1)) \/ char_at(s, 1) \in {"-", "."}
          THEN char_at(s, 1) ELSE "")
         \o keep_filename_chars(str_from(s, 2))

\* django.utils.text.get_valid_filename; "" stands for the names it refuses
\* with SuspiciousFileOperation ("", "." and "..")
get_valid_filename(name) ==
    LET s == keep_filename_chars(str_replace(str_strip(name), " ", "_"))
    IN IF s \in {"", ".", ".."} THEN "" ELSE s

\* the name is taken as the client sent it
unsanitized_name(original_name) == original_name

\* base_name = get_valid_filename(os.path.basename(original_name))
sanitized_name(original_name) == get_valid_filename(py_basename(original_name))

\* str(counter) for the counters the loop can reach
counter_digits(counter) == char_at(Digits, counter + 1)

\* f"{stem}_{counter}{suffix}"
numbered_candidate(stem, counter, suffix) ==
    stem \o "_" \o counter_digits(counter) \o suffix

\* the segments of folder / safe_name below MEDIA_ROOT
RECURSIVE path_segments(_)
path_segments(s) ==
    IF rfind_char(s, "/") = 0 THEN <<s>>
    ELSE path_segments(SubSeq(s, 1, rfind_char(s, "/") - 1)) \o <<path_name(s)>>

UploadNames ==
    { "report.docx", "../../Top Secret!.docx", "docs/report.docx", "..\\x y.RTF", "notes.txt" }

\* directories that earlier uploads of the job have left
UploadDirs == SUBSET { "report.docx", "report_1.docx", "Top_Secret.docx" }

UploadLocals == [used_names |-> {}, stem |-> "", suffix |-> "", candidate |-> "", counter |-> 1]

InitUpload ==
    /\ up_files \in SeqsUpTo(UploadNames, MaxFiles)
    /\ up_dir \in UploadDirs
    /\ up_pc = "called"
    /\ up_i = 1
    /\ up_st = UploadLocals
    /\ up_stored = <<>>
    /\ IdleToc /\ IdleSplit /\ IdleFast /\ IdleDesc /\ IdleTitle /\ IdleMeth /\ IdleSeo /\ IdleBc /\ IdleRuns /\ IdleJobs /\ IdlePar /\ IdleJson

\* the checks before the loop over the files: 400 without files or with a
\* file of another type; else existing_names is the listing of the folder
UploadValidate ==
    /\ up_pc = "called"
    /\ IF \/ up_files = <<>>
          \/ \E k \in 1..Len(up_files) :
                str_lower(path_suffix(up_files[k])) \notin ALLOWED_DOCUMENT_EXTENSIONS
       THEN /\ up_pc' = "rejected"
            /\ UNCHANGED up_st
       ELSE /\ up_pc' = "file"
            /\ up_st' = [up_st EXCEPT !.used_names = up_dir]
    /\ UNCHANGED <<up_files, up_dir, up_i, up_stored,
                   tocVars, splitVars, fastVars, descVars, titleVars, methVars, seoVars,
                   bcVars, runsVars, jobsVars, parVars, jsonVars>>

\* _sanitize_filename up to its while loop
UploadSanitize ==
    /\ up_pc = "file"
    /\ up_i <= Len(up_files)
    /\ LET base_name == sanitized_name(up_files[up_i])
           stem == IF path_stem(base_name) = "" THEN "document" ELSE path_stem(base_name)
           suffix == IF path_suffix(base_name) = "" THEN ".docx" ELSE path_suffix(base_name)
       IN IF base_name = ""
          THEN /\ up_pc' = "raised"
               /\ UNCHANGED up_st
          ELSE /\ up_pc' = "loop"
               /\ up_st' = [up_st EXCEPT !.stem = stem, !.suffix = suffix,
                                         !.candidate = stem \o suffix, !.counter = 1]
    /\ UNCHANGED <<up_files, up_dir, up_i, up_stored,
                   tocVars, splitVars, fastVars, descVars, titleVars, methVars, seoVars,
                   bcVars, runsVars, jobsVars, parVars, jsonVars>>

\* one turn of `while candidate in used_names`
UploadCounter ==
    /\ up_pc = "loop"
    /\ up_st.candidate \in up_st.used_names
    /\ up_st' = [up_st EXCEPT
                    !.candidate = numbered_candidate(up_st.stem, up_st.counter, up_st.suffix),
                    !.counter = @ + 1]
    /\ UNCHANGED <<up_files, up_dir, up_pc, up_i, up_stored,
                   tocVars, splitVars, fastVars, descVars, titleVars, methVars, seoVars,
                   bcVars, runsVars, jobsVars, parVars, jsonVars>>

\* the loop is left: used_names.add(candidate), the file is written to
\* folder / safe_name and its UploadedFile row is created
UploadStore ==
    /\ up_pc = "loop"
    /\ up_st.candidate \notin up_st.used_names
    /\ up_st' = [up_st EXCEPT !.used_names = @ \cup {up_st.candidate}]
    /\ up_stored' = Append(up_stored,
                           [original |-> up_files[up_i],
                            file_name |-> up_st.candidate,
                            file_path |-> <<"job">> \o path_segments(up_st.candidate),
                            overwrote |-> up_st.candidate \in up_dir])
    /\ up_dir' = up_dir \cup {up_st.candidate}
    /\ up_i' = up_i + 1
    /\ up_pc' = "file"
    /\ UNCHANGED <<up_files,
                   tocVars, splitVars, fastVars, descVars, titleVars, methVars, seoVars,
                   bcVars, runsVars, jobsVars, parVars, jsonVars>>

\* return Response({"jobId": job_id})
UploadReturn ==
    /\ up_pc = "file"
    /\ up_i > Len(up_files)
    /\ up_pc' = "done"
    /\ UNCHANGED <<up_files, up_dir, up_i, up_st, up_stored,
                   tocVars, splitVars, fastVars, descVars, titleVars, methVars, seoVars,
                   bcVars, runsVars, jobsVars, parVars, jsonVars>>

NextUpload == UploadValidate \/ UploadSanitize \/ UploadCounter \/ UploadStore \/ UploadReturn

SpecUpload == InitUpload /\ [][NextUpload]_vars

\* the thread that serves the request keeps running while it is in the
\* while loop of _sanitize_filename: a turn of the loop, or the step that
\* leaves it, is taken when it can be
SpecUploadFair == SpecUpload /\ WF_vars(UploadCounter) /\ WF_vars(UploadStore)

\* the stored file lies directly in the directory of its job, under a name
\* without directory component and without ".." segment, with the extension
\* of the uploaded name, which no file of the directory had before
StoredSafely(f) ==
    /\ Len(f.file_path) = 2
    /\ f.file_path[1] = "job"
    /\ f.file_path[2] = f.file_name
    /\ f.file_name \notin {"", ".", ".."}
    /\ ~str_in("/", f.file_name) /\ ~str_in("\\", f.file_name)
    /\ path_suffix(f.file_name) = path_suffix(f.original)
    /\ ~f.overwrote

AllStoredSafely ==
    /\ \A k \in 1..Len(up_stored) : StoredSafely(up_stored[k])
    /\ \A k, j \in 1..Len(up_stored) : k # j => up_stored[k].file_name # up_stored[j].file_name
    /\ up_pc # "raised"

MaxParFiles == 3

MaxWorkers == 2

Workers == 1..MaxWorkers

\* the keys extract_all_data_fast asks _get_pattern for, in order
PatternKeys == <<"title", "exec_summary", "report_title">>

\* re.compile(pattern, re.I | re.X) for the pattern that goes with a key
compiled_pattern(key) == "re.compile(" \o key \o ")"

CompiledPatterns == [k \in 1..Len(PatternKeys) |-> compiled_pattern(PatternKeys[k])]

\* the documents behind the paths: extract_all_data_fast raises for bad.docx
ParPaths == { "a.docx", "Salt-and-Sand.docx", "bad.docx" }

\* what process_single_file returns for a path, given the patterns
\* extract_all_data_fast was handed: None when the extraction raises
process_single_file(file_path, patterns) ==
    IF file_path = "bad.docx"
    THEN [ok |-> FALSE, title |-> "", skucode |-> "", file_path |-> ""]
    ELSE [ok |-> TRUE,
          title |-> IF patterns = CompiledPatterns THEN "next paragraph of " \o file_path ELSE "",
          skucode |-> extract_sku_code(file_path),
          file_path |-> ""]

\* extract_all_data_fast called on its own, outside any executor
sequential_extraction(file_path) == process_single_file(file_path, CompiledPatterns)

\* every record is tagged with the path of the last submitted file
last_submitted_file(file_paths, future) == file_paths[Len(file_paths)]

\* future_to_file[future]
future_to_file(file_paths, future) == file_paths[future]

IdleWorker == [pc |-> "idle", task |-> 0, k |-> 1, patterns |-> <<>>]

NoFuture == [done |-> FALSE, ok |-> FALSE, title |-> "", skucode |-> "", file_path |-> ""]

InitPar ==
    /\ par_files \in SeqsUpTo(ParPaths, MaxParFiles)
    /\ par_queue = [k \in 1..Len(par_files) |-> k]
    /\ par_workers = [w \in Workers |-> IdleWorker]
    /\ \E warm \in BOOLEAN :
          _pattern_cache = [k \in 1..Len(PatternKeys) |->
                               IF warm THEN compiled_pattern(PatternKeys[k]) ELSE ""]
    /\ _cache_lock = 0
    /\ par_futures = [k \in 1..Len(par_files) |-> NoFuture]
    /\ par_collected = {}
    /\ par_results = <<>>
    /\ par_pc = "collecting"
    /\ IdleToc /\ IdleSplit /\ IdleFast /\ IdleDesc /\ IdleTitle /\ IdleMeth /\ IdleSeo /\ IdleBc /\ IdleRuns /\ IdleJobs /\ IdleUp /\ IdleJson

ParUnchangedOthers ==
    UNCHANGED <<par_files, tocVars, splitVars, fastVars, descVars, titleVars, methVars,
                seoVars, bcVars, runsVars, jobsVars, upVars, jsonVars>>

\* a thread of the executor takes the next submitted call
ParTake(w) ==
    /\ par_workers[w].pc = "idle"
    /\ par_queue # <<>>
    /\ par_workers' = [par_workers EXCEPT
                          ![w] = [pc |-> "lock", task |-> Head(par_queue), k |-> 1,
                                  patterns |-> <<>>]]
    /\ par_queue' = Tail(par_queue)
    /\ UNCHANGED <<_pattern_cache, _cache_lock, par_futures, par_collected, par_results, par_pc>>
    /\ ParUnchangedOthers

\* _get_pattern: with _cache_lock
ParAcquire(w) ==
    /\ par_workers[w].pc = "lock"
    /\ _cache_lock = 0
    /\ _cache_lock' = w
    /\ par_workers' = [par_workers EXCEPT ![w].pc = "cache"]
    /\ UNCHANGED <<par_queue, _pattern_cache, par_futures, par_collected, par_results, par_pc>>
    /\ ParUnchangedOthers

\* _get_pattern: the body of the with block and the release of the lock
ParGetPattern(w) ==
    /\ par_workers[w].pc = "cache"
    /\ _cache_lock = w
    /\ LET k == par_workers[w].k
           cache == IF _pattern_cache[k] = ""
                    THEN [_pattern_cache EXCEPT ![k] = compiled_pattern(PatternKeys[k])]
                    ELSE _pattern_cache
       IN /\ _pattern_cache' = cache
          /\ par_workers' = [par_workers EXCEPT
                                ![w].patterns = Append(@, cache[k]),
                                ![w].k = k + 1,
                                ![w].pc = IF k = Len(PatternKeys) THEN "extract" ELSE "lock"]
    /\ _cache_lock' = 0
    /\ UNCHANGED <<par_queue, par_futures, par_collected, par_results, par_pc>>
    /\ ParUnchangedOthers

\* the rest of process_single_file; its return value completes the future
ParExtract(w) ==
    /\ par_workers[w].pc = "extract"
    /\ LET task == par_workers[w].task
           returned == process_single_file(par_files[task], par_workers[w].patterns)
       IN par_futures' = [par_futures EXCEPT
                             ![task] = [done |-> TRUE, ok |-> returned.ok,
                                        title |-> returned.title,
                                        skucode |-> returned.skucode,
                                        file_path |-> returned.file_path]]
    /\ par_workers' = [par_workers EXCEPT ![w] = IdleWorker]
    /\ UNCHANGED <<par_queue, _pattern_cache, _cache_lock, par_collected, par_results, par_pc>>
    /\ ParUnchangedOthers

\* one turn of `for future in as_completed(future_to_file)`
ParCollect ==
    /\ par_pc = "collecting"
    /\ \E future \in 1..Len(par_files) :
          /\ par_futures[future].done
          /\ future \notin par_collected
          /\ par_collected' = par_collected \cup {future}
          /\ par_results' =
                IF par_futures[future].ok
                THEN Append(par_results,
                            [title |-> par_futures[future].title,
                             skucode |-> par_futures[future].skucode,
                             file_path |-> future_to_file(par_files, future)])
                ELSE par_results
    /\ UNCHANGED <<par_queue, par_workers, _pattern_cache, _cache_lock, par_futures, par_pc>>
    /\ ParUnchangedOthers

\* return results
ParReturn ==
    /\ par_pc = "collecting"
    /\ par_collected = 1..Len(par_files)
    /\ par_pc' = "done"
    /\ UNCHANGED <<par_queue, par_workers, _pattern_cache, _cache_lock, par_futures,
                   par_collected, par_results>>
    /\ ParUnchangedOthers

NextPar ==
    \/ \E w \in Workers : ParTake(w)
    \/ \E w \in Workers : ParAcquire(w)
    \/ \E w \in Workers : ParGetPattern(w)
    \/ \E w \in Workers : ParExtract(w)
    \/ ParCollect
    \/ ParReturn

SpecPar == InitPar /\ [][NextPar]_vars

\* the input positions whose file is the given one and is extracted
Succeeded(file_path) ==
    { k \in 1..Len(par_files) :
        par_files[k] = file_path /\ sequential_extraction(file_path).ok }

\* C18: under any interleaving of the worker threads, process_files_parallel
\* returns exactly one record for each input file whose extraction succeeded,
\* each record is tagged with the path of the file it was extracted from and
\* holds the field values of a sequential extraction of that file, and a file
\* whose extraction fails is omitted without affecting the records of the
\* others.
C18_ParallelEqualsSequential ==
    par_pc = "done" =>
        /\ \A file_path \in ParPaths :
              Cardinality({ r \in 1..Len(par_results) : par_results[r].file_path = file_path })
                  = Cardinality(Succeeded(file_path))
        /\ \A r \in 1..Len(par_results) :
              /\ par_results[r].title = sequential_extraction(par_results[r].file_path).title
              /\ par_results[r].skucode = sequential_extraction(par_results[r].file_path).skucode

\* three files, the second of which fails, extracted on a cold cache; the
\* record of the third file has overtaken the record of the first
C18_Witness ==
    /\ par_pc = "done"
    /\ par_files = <<"a.docx", "bad.docx", "Salt-and-Sand.docx">>
    /\ Len(par_results) = 2
    /\ par_results[1].file_path = "Salt-and-Sand.docx"
    /\ par_results[1].skucode = "salt sand"
    /\ par_results[2].file_path = "a.docx"

(***************************************************************************)
(* The order of the first two strategies of extract_title.                 *)
(***************************************************************************)
\* the paragraphs with a valid inline labelled title
InlineTitleParas ==
    { k \in 1..Len(title_doc) : _extract_labeled_inline_title(title_doc[k].text) # <<>> }

\* the title derived from the inline candidate of paragraph k
InlineDerived(k) ==
    _ensure_filename_start_and_year(
        _extract_labeled_inline_title(title_doc[k].text), title_filename)

\* the label lines that stand alone and are followed by a title paragraph:
\* at least 40 characters, a year range, and either "segment revenue
\* estimation" with "forecast" or two "by" clauses with "market"
HeaderTitlePairs ==
    { k \in 1..(Len(title_doc) - 1) :
        /\ is_header_line(title_doc[k].text)
        /\ text_len(title_doc[k + 1].text) >= 40
        /\ is_long_form_text(title_doc[k + 1].text) }

\* the title derived from the paragraph under label line k
HeaderDerived(k) ==
    _ensure_filename_start_and_year(title_doc[k + 1].text, title_filename)

BothTitleForms == InlineTitleParas # {} /\ HeaderTitlePairs # {}

FirstExecSummary == toc_doc[Min({ k \in 1..Len(toc_doc) : toc_doc[k].es })]

\* the first non-empty paragraph after it
FirstAfterExecSummary == toc_doc[Min({ k \in 1..Len(toc_doc) : toc_doc[k].es }) + 1]

\* C20: the variant returned by determine_toc_logic depends only on four
\* booleans, the bold and in-list status of the first paragraph containing
\* "Executive Summary" and of the first non-empty paragraph after it; no
\* paragraph further down the document changes the selected variant.
C20_VariantFromFirstTwoParagraphs ==
    Len(toc_doc) >= 2 =>
        determine_toc_logic(toc_doc) =
            toc_variant(FirstExecSummary.bold, toc_logic_in_list(FirstExecSummary),
                        FirstAfterExecSummary.bold, toc_logic_in_list(FirstAfterExecSummary))

(***************************************************************************)
(* Variant 3 of extract_toc: "Country-Level Breakdown:" and the third      *)
(* nesting level.                                                          *)
(***************************************************************************)
\* the loop of variant 3 is about to handle paragraph toc_i, a list item
\* that is not the bold heading with inline bullets
Logic3ListItemNext ==
    /\ toc_pc = "loop" /\ toc_i <= Len(toc_doc)
    /\ toc_st.capture /\ logic_type = 3
    /\ toc_doc[toc_i].wlist \/ has_bullet_chars(toc_doc[toc_i]) \/ has_numbering(toc_doc[toc_i])
    /\ ~(toc_doc[toc_i].bold /\ toc_doc[toc_i].mark = "dot")

\* the paragraph toc_i has been handled
TocStepped == toc_i' = toc_i + 1

\* C21: in TOC variant 3 a list item whose text contains "Country-Level
\* Breakdown:" is never emitted as a new top-level parent: it is placed as a
\* child inside the list that is currently open, where it opens one nested
\* list.  (With no list open, the list it is placed in is opened first.)
C21_CountryLevelIsChild ==
    [][(Logic3ListItemNext /\ toc_doc[toc_i].phrase = "country" /\ TocStepped)
           => toc_st'.html_output =
                  toc_st.html_output
                    \o (IF toc_st.inside_list THEN <<>> ELSE <<UL>>)
                    \o <<Tok("<li><p><strong>", toc_i), UL>>]_vars

\* the tracked depth of extract_toc stays below three
TocDepthBelowThree == toc_st.list_depth <= 2

\* C22: TOC variant 3 produces three nesting levels: a colon-terminated list
\* item met while a nested list is open (depth 2) is emitted as a grandchild
\* that opens a third list, bringing the tracked depth to 3.
C22_GrandchildOpensThirdList ==
    [][(/\ Logic3ListItemNext
        /\ toc_doc[toc_i].colon
        /\ toc_st.inside_list /\ toc_st.list_depth = 2
        /\ ~lof_recent(toc_st.html_output)
        /\ TocStepped)
           => /\ toc_st'.list_depth = 3
              /\ toc_st'.html_output =
                     toc_st.html_output \o <<Tok("<li><p><strong>", toc_i), UL>>]_vars

(***************************************************************************)
(* The regional section of extract_description.                            *)
(***************************************************************************)
\* paragraph j is emitted as the <h2> of a target heading: it holds the
\* heading and no earlier paragraph holds the same one
MainHeadingAt(j) ==
    /\ ~desc_doc[j].table
    /\ desc_doc[j].head # 0
    /\ \A e \in 1..(j - 1) : desc_doc[e].table \/ desc_doc[e].head # desc_doc[j].head

\* the target heading emitted last before paragraph i, 0 when there is none
CurrentSection(i) ==
    LET js == { j \in 1..(i - 1) : MainHeadingAt(j) }
    IN IF js = {} THEN 0 ELSE desc_doc[Max(js)].head

\* the entries of html_output that are a region name promoted to <h2>
RegionalH2s ==
    { k \in 1..Len(desc_st.html_output) :
        LET t == desc_st.html_output[k]
        IN /\ t.tag = "<h2>"
           /\ t.src > 0
           /\ desc_doc[t.src].region # "none"
           /\ ~MainHeadingAt(t.src) }

\* C23: in extract_description a region-name paragraph is promoted to <h2>
\* only while the regional section is the current section: the regional flag
\* is set when the "Regional Landscape And Adoption Outlook" heading is
\* emitted and is cleared as soon as any other target section heading is
\* emitted.
C23_RegionalOnlyInRegionalSection ==
    /\ \A k \in RegionalH2s :
           target_headings[5] = "regional landscape and adoption outlook"
             /\ CurrentSection(desc_st.html_output[k].src) = 5
    /\ desc_pc = "loop" =>
           (desc_st.inside_regional_section <=> CurrentSection(desc_i) = 5)

(***************************************************************************)
(* _extract_json_block on its own: the text of a document (_get_text) is   *)
(* a run of pieces, each a brace, the "@type" marker of a schema, a        *)
(* member, or a blank.                                                     *)
(***************************************************************************)
MaxJsonPieces == 4

JsonPieces == { "{", "}", "\"@type\": \"FAQPage\"", "\"name\": 1,", " " }

\* the type names the callers pass: extract_faq_schema and the breadcrumb
\* extraction
JsonTypeNames == { "FAQPage", "BreadcrumbList" }

RECURSIVE join_pieces(_)
\* the text made of a run of pieces
join_pieces(ps) == IF ps = <<>> THEN "" ELSE Head(ps) \o join_pieces(Tail(ps))

JsonTexts == { join_pieces(ps) : ps \in SeqsUpTo(JsonPieces, MaxJsonPieces) }

\* pat.search(text): m.start() as a position, 0 when there is no match
search_type_marker(text, type_name) ==
    LET markers == { k \in 1..Len(text) : type_marker_at(text, k, type_name) }
    IN IF markers = {} THEN 0 ELSE Min(markers)

InitJson ==
    /\ json_text \in JsonTexts
    /\ json_type \in JsonTypeNames
    /\ json_pc = "search"
    /\ json_m = 0
    /\ json_result = ""
    /\ IdleToc /\ IdleSplit /\ IdleFast /\ IdleDesc /\ IdleTitle /\ IdleMeth /\ IdleSeo /\ IdleBc /\ IdleRuns /\ IdleJobs /\ IdleUp /\ IdlePar

JsonUnchangedOthers ==
    UNCHANGED <<json_text, json_type, tocVars, splitVars, fastVars, descVars, titleVars,
                methVars, seoVars, bcVars, runsVars, jobsVars, upVars, parVars>>

\* m = pat.search(text); if not m: return ""
JsonSearch ==
    /\ json_pc = "search"
    /\ json_m' = search_type_marker(json_text, json_type)
    /\ json_pc' = IF json_m' = 0 THEN "done" ELSE "scan"
    /\ UNCHANGED json_result
    /\ JsonUnchangedOthers

\* the rest of the function: rfind of "{", the scan with the depth counter,
\* the return of the stripped block
JsonScan ==
    /\ json_pc = "scan"
    /\ json_result' = _extract_json_block(json_text, json_type)
    /\ json_pc' = "done"
    /\ UNCHANGED json_m
    /\ JsonUnchangedOthers

NextJson == JsonSearch \/ JsonScan

SpecJson == InitJson /\ [][NextJson]_vars

\* the number of characters c among the first n characters of s
count_char(s, n, c) == Cardinality({ k \in 1..n : char_at(s, k) = c })

\* C24: whenever _extract_json_block returns a non-empty string, that string
\* starts at a "{", ends at the "}" that matches it, and contains equally
\* many "{" and "}" characters, also for text in which the block is never
\* closed.
C24_BlockIsBalanced ==
    (json_pc = "done" /\ json_result # "") =>
        LET b == json_result
        IN /\ char_at(b, 1) = "{"
           /\ char_at(b, Len(b)) = "}"
           /\ count_char(b, Len(b), "{") = count_char(b, Len(b), "}")
           /\ \A n \in 1..(Len(b) - 1) : count_char(b, n, "{") > count_char(b, n, "}")

\* C25: whenever _extract_json_block returns a non-empty string for a type
\* name T, the returned block contains the marker "@type": "T" that was
\* located: it is an object that encloses the marker, never an earlier,
\* already closed object that precedes it.
C25_BlockHoldsMarker ==
    (json_pc = "done" /\ json_result # "") =>
        \E k \in 1..Len(json_result) : type_marker_at(json_result, k, json_type)

(***************************************************************************)
(* Where the content of the entries of the TOC output comes from.          *)
(***************************************************************************)
\* C26: in extract_toc every non-empty paragraph after the "Executive
\* Summary" marker is classified and rendered from its own text and runs
\* only: no output token repeats the rendered content of an earlier
\* paragraph, and no paragraph's own content is replaced by an earlier
\* paragraph's content.
C26_TokensFromOwnParagraph ==
    [][toc_i' = toc_i + 1 =>
           \A k \in (Len(toc_st.html_output) + 1)..Len(toc_st'.html_output) :
               toc_st'.html_output[k].src \in {0, toc_i}]_vars
\* a rejected upload of the user: upload_files answers 400 for a request
\* without files or with a file of an unsupported type
RejectedUpload(user) ==
    \/ JobsUpload(user, FALSE)
    \/ \E job_id \in JobIds : JobsUploadAppend(user, job_id, FALSE)

\* C27: an upload request that is rejected (no files, or a file with an
\* extension outside the allow-list) has no effect on stored state: no file
\* is written, and no job directory, job record, session registration or
\* in-memory job entry is created by it.
C27_RejectedUploadHasNoEffect ==
    [][(\E user \in Users : RejectedUpload(user)) =>
          /\ JOBS' = JOBS
          /\ job_records' = job_records
          /\ jobs_session' = jobs_session
          /\ \A j \in JobIds : /\ jobs_dir'[j].exists => jobs_dir[j].exists
                               /\ jobs_dir'[j].docx <= jobs_dir[j].docx]_vars

\* C28: for any job and any interleaving of start_convert requests and
\* conversion workers, the progress value stored for the job never decreases
\* over time, and it reaches 100 only when the job is done.
C28_ProgressMonotoneAndDoneAt100 ==
    /\ [][\A j \in JobIds : JOBS[j].tracked /\ JOBS'[j].tracked =>
                               JOBS'[j].progress >= JOBS[j].progress]_vars
    /\ [](\A j \in JobIds : JOBS[j].progress = 100 => JOBS[j].done)

\* C29: under every interleaving of a conversion worker with reset_job on
\* the same job, the worker terminates without an unhandled exception: it
\* ends having marked its job entry done or having observed that the job
\* was cancelled or removed, and it never re-creates the removed entry.
C29_WorkerEndsWithoutUnhandledException ==
    /\ [](\A t \in Threads : jobs_worker[t].pc # "crashed")
    /\ [][\A j \in JobIds : ~JOBS[j].tracked /\ JOBS'[j].tracked => j \notin jobs_issued]_vars

\* the job is registered in the session of some user but not in the user's
RegisteredOnlyElsewhere(user, job_id) ==
    /\ ~_job_is_authorized(user, job_id)
    /\ \E owner \in Users \ {user} : _job_is_authorized(owner, job_id)

\* a request of the user to one of the endpoints that change jobs
MutatingRequest(user) ==
    \/ \E job_id \in JobIds, files_ok \in BOOLEAN : JobsUploadAppend(user, job_id, files_ok)
    \/ \E job_id \in JobIds : JobsStartConvert(user, job_id)
    \/ \E job_id \in JobIds : JobsResetJob(user, job_id)
    \/ jobs_reset.user = user /\ JobsResetDelete
    \/ JobsResetAll(user)

\* C30: no request made by one user can cancel, delete or otherwise change a
\* job that is registered only in another user's session: upload to an
\* existing job, start_convert and reset_job affect only jobs registered in
\* the requesting session.
C30_RequestsTouchOwnJobsOnly ==
    [][\A user \in Users : MutatingRequest(user) =>
          \A j \in JobIds : RegisteredOnlyElsewhere(user, j) =>
             /\ JOBS'[j] = JOBS[j]
             /\ job_records'[j] = job_records[j]
             /\ jobs_dir'[j] = jobs_dir[j]
             /\ \A owner \in Users \ {user} : jobs_session'[owner] = jobs_session[owner]
             /\ \A t \in Threads : jobs_worker'[t].job = j => jobs_worker[t].job = j]_vars


====
